---- MODULE Spec2Model ----
(***************************************************************************)
(* The contraction table of source/i18n/ucol_cnt.cpp: a CntTable holding   *)
(* ContractionTable elements in expanded form, the operations that build   *)
(* it, uprv_cnttab_constructTable that flattens it, and clone.             *)
(*                                                                         *)
(* A 32-bit word (a CE, an element argument, a return value) is the pair   *)
(* <<high 8 bits, low 24 bits>>: the split is exact and keeps every value  *)
(* inside TLC's integers.  A buffer is a sequence; C index i is TLA+ index *)
(* i+1.  Heap objects (ContractionTable structs with their two buffers)    *)
(* live in `heap`, addressed by their index; 0 is the null pointer.        *)
(***************************************************************************)
EXTENDS Integers, Sequences, FiniteSets, TLC

VARIABLES tables, heap, mapping, hist

vars == <<tables, heap, mapping, hist>>

----------------------------------------------------------------------------
(* Words and collation elements                                            *)

TwoTo24 == 16777216

\* a uint32_t value n < 2^31 written as a word
Word(n) == <<n \div TwoTo24, n % TwoTo24>>

\* element &= 0xFFFFFF
Low24(w) == w[2]

\* the literal 0xFFFFFF the operations compare the masked element with
UPRV_CNTTAB_NEWELEMENT == 16777215

\* ucol_cnt.h / ucol_imp.h are not among the source files: the CE layout is
\* the one the specification describes (a reserved flag field, the handle in
\* the low 24 bits), with ICU's values for the flag and the contraction tag.
UCOL_NOT_FOUND == <<240, 0>>

CONTRACTION_TAG_BYTE == 242

constructContractCE(x) == <<CONTRACTION_TAG_BYTE, x % TwoTo24>>

isContraction(CE) == CE[1] = CONTRACTION_TAG_BYTE

getContractOffset(CE) == CE[2]

\* a CE that carries a weight directly (high byte below the special flag)
Direct(w) == Word(w)

\* uprv_memset(.., 'F', ..): every byte 0x46
FillCE == <<70, 4605510>>
FillCP == 17990
\* uprv_memset(.., '?', ..): every byte 0x3F
QmCE == <<63, 4144959>>
QmCP == 16191

\* memory that was allocated and never written
UninitCE == <<-1, -1>>
UninitCP == -1
UninitPtr == -1
NULL == 0

INIT_EXP_TABLE_SIZE == 2

U_ZERO_ERROR == "U_ZERO_ERROR"
U_MEMORY_ALLOCATION_ERROR == "U_MEMORY_ALLOCATION_ERROR"
U_INDEX_OUTOFBOUNDS_ERROR == "U_INDEX_OUTOFBOUNDS_ERROR"

\* a test that lets every status through
NeverFailure(st) == FALSE

U_FAILURE(st) == st # U_ZERO_ERROR

\* u_getCombiningClass of unicode/uchar.h (not among the source files):
\* U+0300..U+0314 have class 230, U+0316..U+0319 class 220, the other code
\* points the model uses class 0.
u_getCombiningClass(c) ==
    IF c \in 768..788 THEN 230 ELSE IF c \in 790..793 THEN 220 ELSE 0

----------------------------------------------------------------------------
(* Buffers                                                                 *)

At(buf, i) == buf[i + 1]

\* buf[i] = v; a write outside the buffer changes no slot of it
Put(buf, i, v) ==
    IF i \in 0..(Len(buf) - 1) THEN [buf EXCEPT ![i + 1] = v] ELSE buf

Fill(n, v) == [i \in 1..n |-> v]

\* A flattened buffer of a CntTable (CEs, codePoints, offsets): null, or
\* the words of a malloc'ed block.  `block` names the block, so that two
\* pointers to one block can be told from two equal copies; a block that
\* was freed while a table still points at it is ReleasedBlock.
ReleasedBlock == -1

NullBuf == [null |-> TRUE, data |-> <<>>, block |-> 0]

Buf(d, b) == [null |-> FALSE, data |-> d, block |-> b]

\* the blocks a table's three buffer pointers lead to
BlocksOf(tb) ==
    {b \in {tb.CEs.block, tb.codePoints.block, tb.offsets.block} :
        b # NullBuf.block}

\* table tb after the blocks in `freed` were handed to free by another
\* table: tb's pointers to them dangle
FreeIn(tb, freed) ==
    LET Dangle(b) == IF ~b.null /\ b.block \in freed
                     THEN [b EXCEPT !.block = ReleasedBlock] ELSE b
    IN [tb EXCEPT !.CEs = Dangle(@), !.codePoints = Dangle(@),
                  !.offsets = Dangle(@)]

RECURSIVE SumTo(_, _)
SumTo(f, n) == IF n = 0 THEN 0 ELSE f[n] + SumTo(f, n - 1)

----------------------------------------------------------------------------
(* ContractionTable: one element                                           *)

\* What the allocator answers during one call (`mem`):
\*   MemOK          every request is granted;
\*   NoMemGrow      both reallocs of uprv_growTable return NULL;
\*   NoMemCEs       the realloc of codePoints is granted and moves the block,
\*                  the realloc of CEs returns NULL;
\*   NoMemCPs       the realloc of CEs is granted and moves the block, the
\*                  realloc of codePoints returns NULL;
\*   NoMemElements  the realloc of the handle array returns NULL.
\* (A granted realloc that extends the block in place leaves the element as
\* NoMemGrow does.)  The malloc calls are taken to succeed.
MemOK == "ok"
NoMemGrow == "nogrow"
NoMemCEs == "noCEs"
NoMemCPs == "noCPs"
NoMemElements == "noelements"

GrowFailures == {NoMemGrow, NoMemCEs, NoMemCPs}

\* if(newData == NULL || newCPs == NULL) of a full element
GrowFails(tbl, mem) == tbl.position = tbl.size /\ mem \in GrowFailures

\* the buffers of which the element keeps the old pointer although realloc
\* has released the block
ReleasedBy(mem) ==
    IF mem = NoMemCPs THEN {"CEs"}
    ELSE IF mem = NoMemCEs THEN {"codePoints"}
    ELSE {}

\* growth of a full element: both buffers are reallocated to twice the
\* size, the old contents kept and the new half left unwritten; when one
\* realloc returns NULL the function returns with no field assigned
uprv_growTable(tbl, mem) ==
    IF tbl.position = tbl.size
    THEN IF mem \in GrowFailures
         THEN [tbl EXCEPT !.released = @ \cup ReleasedBy(mem)]
         ELSE [tbl EXCEPT !.CEs = @ \o Fill(tbl.size, UninitCE),
                          !.codePoints = @ \o Fill(tbl.size, UninitCP),
                          !.size = 2 * @]
    ELSE tbl

\* an element created with slot 0 already taken
NewElementReserved ==
    [CEs |-> Fill(INIT_EXP_TABLE_SIZE, FillCE),
     codePoints |-> Fill(INIT_EXP_TABLE_SIZE, FillCP),
     position |-> 1,
     size |-> INIT_EXP_TABLE_SIZE,
     released |-> {}]

\* the element addATableElement creates
NewElement ==
    [CEs |-> Fill(INIT_EXP_TABLE_SIZE, FillCE),
     codePoints |-> Fill(INIT_EXP_TABLE_SIZE, FillCP),
     position |-> 0,
     size |-> INIT_EXP_TABLE_SIZE,
     released |-> {}]

\* the pair written over slot 0
AppendPairAtFront(tbl, codePoint, value) ==
    [tbl EXCEPT !.CEs = Put(@, 0, value),
                !.codePoints = Put(@, 0, codePoint),
                !.position = @ + 1]

\* addContraction's write: the pair goes to slot `position`
AppendPair(tbl, codePoint, value) ==
    [tbl EXCEPT !.CEs = Put(@, tbl.position, value),
                !.codePoints = Put(@, tbl.position, codePoint),
                !.position = @ + 1]

\* insertContraction's scan: while(codePoints[offset] < codePoint &&
\* offset < position) offset++.  The slot read at offset = position lies
\* inside the buffer (the element was grown first) and its value does not
\* decide the result, since the second operand is then false.
RECURSIVE InsertScanPastEqual(_, _, _)
InsertScanPastEqual(tbl, codePoint, offset) ==
    IF offset < tbl.position /\ At(tbl.codePoints, offset) <= codePoint
    THEN InsertScanPastEqual(tbl, codePoint, offset + 1)
    ELSE offset

RECURSIVE InsertScan(_, _, _)
InsertScan(tbl, codePoint, offset) ==
    IF offset < tbl.position /\ At(tbl.codePoints, offset) < codePoint
    THEN InsertScan(tbl, codePoint, offset + 1)
    ELSE offset

\* a scan that never stops before the end: the pair is appended
InsertOffsetAtEnd(tbl, codePoint) == tbl.position

InsertOffset(tbl, codePoint) == InsertScan(tbl, codePoint, 0)

\* the pair written without moving the later ones up
ShiftInsertNoMove(tbl, offset, codePoint, value) ==
    [tbl EXCEPT !.CEs = Put(@, offset, value),
                !.codePoints = Put(@, offset, codePoint),
                !.position = @ + 1]

\* insertContraction's shift and write: slots offset..position-1 move one
\* slot up, the pair goes to slot `offset`
ShiftInsert(tbl, offset, codePoint, value) ==
    LET Moved(buf, v) ==
            [i \in 1..Len(buf) |->
                IF i - 1 = offset THEN v
                ELSE IF i - 1 > offset /\ i - 1 <= tbl.position THEN buf[i - 1]
                ELSE buf[i]]
    IN [tbl EXCEPT !.CEs = Moved(tbl.CEs, value),
                   !.codePoints = Moved(tbl.codePoints, codePoint),
                   !.position = @ + 1]

----------------------------------------------------------------------------
(* CntTable: the store                                                     *)

TableIds == {"t", "r"}

NoTable ==
    [live |-> FALSE, elements |-> <<>>, size |-> 0, capacity |-> 0,
     position |-> 0, CEs |-> NullBuf, codePoints |-> NullBuf,
     offsets |-> NullBuf]

uprv_cnttab_open ==
    [live |-> TRUE,
     elements |-> Fill(INIT_EXP_TABLE_SIZE, NULL),
     size |-> 0,
     capacity |-> INIT_EXP_TABLE_SIZE,
     position |-> 0,
     CEs |-> NullBuf, codePoints |-> NullBuf, offsets |-> NullBuf]

\* the element of handle h of table tb
Elem(tb, hp, h) == hp[At(tb.elements, h)]

\* table->elements == NULL: a handle array of no slot
NullElements == <<>>

\* addATableElement: a fresh element is stored at handle `size`, size is
\* advanced, and the handle array is doubled (new half zeroed) when full.
\* When that realloc returns NULL the result is assigned to table->elements
\* all the same, the memset is made through it, the status is set and the
\* capacity kept (nomem).
addATableElement(tb, hp, mem) ==
    LET addr == Len(hp) + 1
        key == tb.size
        t1 == [tb EXCEPT !.elements = Put(@, key, addr), !.size = @ + 1]
        full == t1.size = t1.capacity
        t2 == IF full
              THEN IF mem = NoMemElements
                   THEN [t1 EXCEPT !.elements = NullElements]
                   ELSE [t1 EXCEPT !.elements = @ \o Fill(t1.capacity, NULL),
                                   !.capacity = 2 * @]
              ELSE t1
    IN [table |-> t2, heap |-> Append(hp, NewElement), key |-> key,
        addr |-> addr, nomem |-> full /\ mem = NoMemElements]

\* the handles a caller may pass for table tb: the new-element value in the
\* low 24 bits, or an index into the handle array whose slot was written
ValidElement(tb, element) ==
    /\ tb.elements # NullElements
    /\ \/ Low24(element) = UPRV_CNTTAB_NEWELEMENT
       \/ /\ Low24(element) < tb.capacity
          /\ At(tb.elements, Low24(element)) # UninitPtr

\* an element created on every call, whatever the handle
ResolveAlways(tb, hp, element, mem) == addATableElement(tb, hp, mem)

\* if((element == 0xFFFFFF) || (tbl = table->elements[element]) == NULL)
\*     tbl = addATableElement(table, &element, status);
Resolve(tb, hp, element, mem) ==
    IF \/ Low24(element) = UPRV_CNTTAB_NEWELEMENT
       \/ At(tb.elements, Low24(element)) = NULL
    THEN addATableElement(tb, hp, mem)
    ELSE [table |-> tb, heap |-> hp, key |-> Low24(element),
          addr |-> At(tb.elements, Low24(element)), nomem |-> FALSE]

\* the status after the allocations of a call that was entered with st
StatusAfter(st, nomem) == IF nomem THEN U_MEMORY_ALLOCATION_ERROR ELSE st

----------------------------------------------------------------------------
(* The record of a call: its arguments, the status it leaves, what it      *)
(* returns (ret: a uint32_t, iret: an int32_t), the handle it resolved     *)
(* (key, -1 when none) and whether it read or wrote outside a buffer or    *)
(* read memory never written (ub).                                         *)

Call(op, id, element, codePoint, value, offset, st, ret, iret, key, ub) ==
    [op |-> op, tbl |-> id, element |-> element, cp |-> codePoint,
     value |-> value, offset |-> offset, status |-> st, ret |-> ret,
     iret |-> iret, key |-> key, ub |-> ub]

CanCall(id) == tables[id].live

Last == hist[Len(hist)]

\* a call made with a failing status: nothing happens, `ret` is returned
Refused(op, id, element, codePoint, value, offset, st, ret) ==
    /\ UNCHANGED <<tables, heap, mapping>>
    /\ hist' = Append(hist, Call(op, id, element, codePoint, value, offset,
                                 st, ret, 0, -1, FALSE))

\* the call uprv_cnttab_open(mapping, &status) whose result the caller
\* keeps as table id: with a failing status it returns 0 and there is no
\* table, otherwise the table is the one uprv_cnttab_open describes
cnttab_open(id, st) ==
    /\ ~tables[id].live
    /\ IF U_FAILURE(st)
       THEN Refused("open", id, Word(0), 0, Word(0), 0, st, Word(0))
       ELSE /\ tables' = [tables EXCEPT ![id] = uprv_cnttab_open]
            /\ UNCHANGED <<heap, mapping>>
            /\ hist' = Append(hist, Call("open", id, Word(0), 0, Word(0), 0,
                                         st, Word(0), 0, -1, FALSE))

----------------------------------------------------------------------------
(* Building operations                                                     *)

\* The status set by uprv_growTable is not looked at: after a failed growth
\* the pair is written at slot position = size, outside the buffers (or
\* into a released one), and position is advanced.
uprv_cnttab_addContraction(id, element, codePoint, value, st, mem) ==
    /\ CanCall(id)
    /\ ValidElement(tables[id], element)
    /\ IF U_FAILURE(st)
       THEN Refused("add", id, element, codePoint, value, 0, st, Word(0))
       ELSE LET r == Resolve(tables[id], heap, element, mem)
                fails == GrowFails(r.heap[r.addr], mem)
                grown == uprv_growTable(r.heap[r.addr], mem)
            IN /\ tables' = [tables EXCEPT ![id] = r.table]
               /\ heap' = [r.heap EXCEPT
                              ![r.addr] = AppendPair(grown, codePoint, value)]
               /\ UNCHANGED mapping
               /\ hist' = Append(hist,
                      Call("add", id, element, codePoint, value, 0,
                           StatusAfter(st, r.nomem \/ fails),
                           constructContractCE(r.key), 0, r.key,
                           r.nomem \/ fails))

\* As in addContraction the status of uprv_growTable is not looked at:
\* after a failed growth the shift starts at slot position = size, outside
\* the buffers, and position is advanced.
uprv_cnttab_insertContraction(id, element, codePoint, value, st, mem) ==
    /\ CanCall(id)
    /\ ValidElement(tables[id], element)
    /\ IF U_FAILURE(st)
       THEN Refused("insert", id, element, codePoint, value, 0, st, Word(0))
       ELSE LET r == Resolve(tables[id], heap, element, mem)
                fails == GrowFails(r.heap[r.addr], mem)
                grown == uprv_growTable(r.heap[r.addr], mem)
                offset == InsertOffset(grown, codePoint)
            IN /\ tables' = [tables EXCEPT ![id] = r.table]
               /\ heap' = [r.heap EXCEPT
                     ![r.addr] = ShiftInsert(grown, offset, codePoint, value)]
               /\ UNCHANGED mapping
               /\ hist' = Append(hist,
                      Call("insert", id, element, codePoint, value, 0,
                           StatusAfter(st, r.nomem \/ fails),
                           constructContractCE(r.key), 0, r.key,
                           r.nomem \/ fails))

\* a bounds test that lets offset = size through
SetOutOfBoundsStrict(tbl, offset) == offset > tbl.size

\* setContraction's bounds test: if(offset >= tbl->size)
SetOutOfBounds(tbl, offset) == offset >= tbl.size

\* a write that counts the slot written among the pairs
SetPairCounting(tbl, offset, codePoint, value) ==
    [tbl EXCEPT !.CEs = Put(@, offset, value),
                !.codePoints = Put(@, offset, codePoint),
                !.position = IF offset >= @ THEN offset + 1 ELSE @]

\* setContraction's write: slot `offset`, position untouched
SetPair(tbl, offset, codePoint, value) ==
    [tbl EXCEPT !.CEs = Put(@, offset, value),
                !.codePoints = Put(@, offset, codePoint)]

uprv_cnttab_setContraction(id, element, offset, codePoint, value, st, mem) ==
    /\ CanCall(id)
    /\ ValidElement(tables[id], element)
    /\ IF U_FAILURE(st)
       THEN Refused("set", id, element, codePoint, value, offset, st, Word(0))
       ELSE LET r == Resolve(tables[id], heap, element, mem)
                tbl == r.heap[r.addr]
            IN /\ tables' = [tables EXCEPT ![id] = r.table]
               /\ UNCHANGED mapping
               /\ IF SetOutOfBounds(tbl, offset)
                  THEN /\ heap' = r.heap
                       /\ hist' = Append(hist,
                              Call("set", id, element, codePoint, value,
                                   offset, U_INDEX_OUTOFBOUNDS_ERROR, Word(0),
                                   0, r.key, r.nomem))
                  ELSE /\ heap' = [r.heap EXCEPT
                              ![r.addr] = SetPair(tbl, offset, codePoint, value)]
                       /\ hist' = Append(hist,
                              Call("set", id, element, codePoint, value,
                                   offset, StatusAfter(st, r.nomem),
                                   constructContractCE(r.key), 0, r.key,
                                   r.nomem))

\* changeLastCE: tbl->CEs[tbl->position-1] = value.  On an element of
\* position 0 the slot written is CEs[-1], outside the buffer: the call is
\* recorded as undefined and no modelled object changes.
uprv_cnttab_changeLastCE(id, element, value, st, mem) ==
    /\ CanCall(id)
    /\ ValidElement(tables[id], element)
    /\ IF U_FAILURE(st)
       THEN Refused("changeLast", id, element, 0, value, 0, st, Word(0))
       ELSE LET r == Resolve(tables[id], heap, element, mem)
                tbl == r.heap[r.addr]
            IN /\ tables' = [tables EXCEPT ![id] = r.table]
               /\ UNCHANGED mapping
               /\ heap' = IF tbl.position = 0 THEN r.heap
                          ELSE [r.heap EXCEPT ![r.addr].CEs =
                                    Put(@, tbl.position - 1, value)]
               /\ hist' = Append(hist,
                      Call("changeLast", id, element, 0, value,
                           tbl.position - 1, StatusAfter(st, r.nomem),
                           constructContractCE(r.key), 0, r.key,
                           tbl.position = 0 \/ r.nomem))

----------------------------------------------------------------------------
(* Lookup                                                                  *)

\* the words a read of memory that was never written, or that lies outside
\* its buffer, may give
GarbageCE == {UCOL_NOT_FOUND, FillCE, Direct(4096), constructContractCE(0)}

\* slot p of the element's code points holds no defined value
UndefinedCP(tbl, p) ==
    p >= Len(tbl.codePoints) \/ At(tbl.codePoints, p) = UninitCP

UndefinedCE(tbl, p) == p >= Len(tbl.CEs) \/ At(tbl.CEs, p) = UninitCE

\* The scan of _cnttab_findCP and of changeContraction, from slot `position`:
\*     while(codePoint > tbl->codePoints[position]) {
\*         position++;
\*         if(position > tbl->position) return -1;
\*     }
\*     return codePoint == tbl->codePoints[position] ? position : -1;
\* The result is the set of outcomes [pos, ub]: a slot whose value is not
\* defined may compare below, equal to or above codePoint.
RECURSIVE FindScan(_, _, _)
FindScan(tbl, codePoint, position) ==
    LET Onward == IF position + 1 > tbl.position
                  THEN {-1}
                  ELSE {o.pos : o \in FindScan(tbl, codePoint, position + 1)}
    IN IF UndefinedCP(tbl, position)
       THEN {[pos |-> q, ub |-> TRUE] : q \in {-1, position} \cup Onward}
       ELSE IF codePoint > At(tbl.codePoints, position)
       THEN IF position + 1 > tbl.position
            THEN {[pos |-> -1, ub |-> FALSE]}
            ELSE FindScan(tbl, codePoint, position + 1)
       ELSE IF codePoint = At(tbl.codePoints, position)
       THEN {[pos |-> position, ub |-> FALSE]}
       ELSE {[pos |-> -1, ub |-> FALSE]}

\* the indices of tbl->codePoints the same scan reads, from slot `position`
\* on: slot `position`, and the next one when the loop goes on (the code
\* point read is below codePoint, or is not defined and may be) and
\* position + 1 > tbl->position does not stop it
RECURSIVE ScanReads(_, _, _)
ScanReads(tbl, codePoint, position) ==
    {position} \cup
        (IF /\ position + 1 <= tbl.position
            /\ \/ UndefinedCP(tbl, position)
               \/ codePoint > At(tbl.codePoints, position)
         THEN ScanReads(tbl, codePoint, position + 1)
         ELSE {})

\* a lookup that takes a word with a tag byte for no handle at all
getContractionTableUnmasked(tb, element) ==
    IF element[1] # 0 \/ Low24(element) = UPRV_CNTTAB_NEWELEMENT
    THEN NULL
    ELSE At(tb.elements, Low24(element))

\* _cnttab_getContractionTable: the element's address, NULL for the
\* new-element value and for an empty slot
getContractionTable(tb, element) ==
    IF Low24(element) = UPRV_CNTTAB_NEWELEMENT
    THEN NULL
    ELSE At(tb.elements, Low24(element))

\* _cnttab_findCP on the element at address addr
findCP(hp, addr, codePoint) ==
    IF addr = NULL
    THEN {[pos |-> -1, ub |-> FALSE]}
    ELSE FindScan(hp[addr], codePoint, 0)

\* _cnttab_getCE: if((uint32_t)position > tbl->position || position == -1)
\* the result is UCOL_NOT_FOUND, otherwise tbl->CEs[position]
getCE(hp, addr, position) ==
    IF addr = NULL
    THEN {[ce |-> UCOL_NOT_FOUND, ub |-> FALSE]}
    ELSE IF position = -1 \/ position > hp[addr].position
    THEN {[ce |-> UCOL_NOT_FOUND, ub |-> FALSE]}
    ELSE IF UndefinedCE(hp[addr], position)
    THEN {[ce |-> g, ub |-> TRUE] : g \in GarbageCE}
    ELSE {[ce |-> At(hp[addr].CEs, position), ub |-> FALSE]}

\* table->elements[element] is read where no pointer was ever stored: past
\* the end of the handle array, or in a slot of it that was never written.
\* The lookups make no range check, so the word found there is used as the
\* element's address.
WildElement(tb, element) == ~ValidElement(tb, element)

\* the positions a scan through a wild address may report
WildPositions == {-1, 0}

uprv_cnttab_findCP(id, element, codePoint, st) ==
    /\ CanCall(id)
    /\ UNCHANGED <<tables, heap, mapping>>
    /\ IF U_FAILURE(st)
       THEN hist' = Append(hist, Call("findCP", id, element, codePoint,
                                 Word(0), 0, st, Word(0), 0, -1, FALSE))
       ELSE IF WildElement(tables[id], element)
       THEN \E p \in WildPositions :
               hist' = Append(hist, Call("findCP", id, element, codePoint,
                                Word(0), 0, st, Word(0), p, -1, TRUE))
       ELSE \E o \in findCP(heap, getContractionTable(tables[id], element),
                            codePoint) :
               hist' = Append(hist, Call("findCP", id, element, codePoint,
                                Word(0), 0, st, Word(0), o.pos, -1, o.ub))

\* what uprv_cnttab_findCE can return:
\*     tbl = _cnttab_getContractionTable(table, element);
\*     return _cnttab_getCE(tbl, _cnttab_findCP(tbl, codePoint));
FindCEOutcomes(tb, hp, element, codePoint) ==
    IF WildElement(tb, element)
    THEN {[ce |-> IF p = -1 THEN UCOL_NOT_FOUND ELSE g, pos |-> p, ub |-> TRUE] :
             p \in WildPositions, g \in GarbageCE}
    ELSE LET addr == getContractionTable(tb, element)
         IN UNION {{[ce |-> c.ce, pos |-> o.pos, ub |-> o.ub \/ c.ub] :
                        c \in getCE(hp, addr, o.pos)} :
                    o \in findCP(hp, addr, codePoint)}

\* what uprv_cnttab_getCE can return
GetCEOutcomes(tb, hp, element, position) ==
    IF WildElement(tb, element)
    THEN {[ce |-> g, ub |-> TRUE] : g \in GarbageCE}
    ELSE getCE(hp, getContractionTable(tb, element), position)

\* a lookup that keeps the position it found in the table
FindCEMemoizing(id, element, codePoint, st) ==
    /\ CanCall(id)
    /\ UNCHANGED <<heap, mapping>>
    /\ \E o \in FindCEOutcomes(tables[id], heap, element, codePoint) :
          /\ tables' = [tables EXCEPT ![id].position = o.pos]
          /\ hist' = Append(hist,
                 Call("findCE", id, element, codePoint, Word(0), 0, st,
                      o.ce, o.pos, -1, o.ub))

uprv_cnttab_findCE(id, element, codePoint, st) ==
    /\ CanCall(id)
    /\ UNCHANGED <<tables, heap, mapping>>
    /\ IF U_FAILURE(st)
       THEN hist' = Append(hist, Call("findCE", id, element, codePoint,
                               Word(0), 0, st, UCOL_NOT_FOUND, 0, -1, FALSE))
       ELSE \E o \in FindCEOutcomes(tables[id], heap, element, codePoint) :
               hist' = Append(hist,
                   Call("findCE", id, element, codePoint, Word(0), 0, st,
                        o.ce, o.pos, -1, o.ub))

uprv_cnttab_getCE(id, element, position, st) ==
    /\ CanCall(id)
    /\ UNCHANGED <<tables, heap, mapping>>
    /\ IF U_FAILURE(st)
       THEN hist' = Append(hist, Call("getCE", id, element, 0, Word(0),
                               position, st, UCOL_NOT_FOUND, 0, -1, FALSE))
       ELSE \E c \in GetCEOutcomes(tables[id], heap, element, position) :
               hist' = Append(hist,
                   Call("getCE", id, element, 0, Word(0), position, st,
                        c.ce, 0, -1, c.ub))

\* the loop and the final test of uprv_cnttab_isTailored on the code units
\* zt of the string (the terminating 0 is the end of the sequence):
\*     while(*(ztString)!=0) {
\*         element = uprv_cnttab_findCE(table, element, *(ztString), status);
\*         if(element == UCOL_NOT_FOUND) return FALSE;
\*         if(!isContraction(element)) return TRUE;
\*         ztString++; }
\*     return uprv_cnttab_getCE(table, element, 0, status) != UCOL_NOT_FOUND;
\* `lookups` counts the calls of uprv_cnttab_findCE and uprv_cnttab_getCE
\* made.  First, a walk that looks every code unit up a second time:
RECURSIVE IsTailoredTwice(_, _, _, _)
IsTailoredTwice(tb, hp, element, zt) ==
    IF zt = <<>>
    THEN {[res |-> c.ce # UCOL_NOT_FOUND, ub |-> c.ub, lookups |-> 1] :
             c \in GetCEOutcomes(tb, hp, element, 0)}
    ELSE UNION {IF e.ce = UCOL_NOT_FOUND
                THEN {[res |-> FALSE, ub |-> e.ub, lookups |-> 2]}
                ELSE IF ~isContraction(e.ce)
                THEN {[res |-> TRUE, ub |-> e.ub, lookups |-> 2]}
                ELSE {[res |-> r.res, ub |-> r.ub \/ e.ub,
                       lookups |-> r.lookups + 2] :
                         r \in IsTailoredTwice(tb, hp, e.ce, Tail(zt))} :
                e \in FindCEOutcomes(tb, hp, element, Head(zt))}

RECURSIVE IsTailored(_, _, _, _)
IsTailored(tb, hp, element, zt) ==
    IF zt = <<>>
    THEN {[res |-> c.ce # UCOL_NOT_FOUND, ub |-> c.ub, lookups |-> 1] :
             c \in GetCEOutcomes(tb, hp, element, 0)}
    ELSE UNION {IF e.ce = UCOL_NOT_FOUND
                THEN {[res |-> FALSE, ub |-> e.ub, lookups |-> 1]}
                ELSE IF ~isContraction(e.ce)
                THEN {[res |-> TRUE, ub |-> e.ub, lookups |-> 1]}
                ELSE {[res |-> r.res, ub |-> r.ub \/ e.ub,
                       lookups |-> r.lookups + 1] :
                         r \in IsTailored(tb, hp, e.ce, Tail(zt))} :
                e \in FindCEOutcomes(tb, hp, element, Head(zt))}

\* the call record keeps the length of the string in `offset` and its
\* first code unit in `cp`; iret is the UBool returned
uprv_cnttab_isTailored(id, element, zt, st) ==
    /\ CanCall(id)
    /\ UNCHANGED <<tables, heap, mapping>>
    /\ IF U_FAILURE(st)
       THEN hist' = Append(hist, Call("isTailored", id, element, 0, Word(0),
                               Len(zt), st, Word(0), 0, -1, FALSE))
       ELSE \E r \in IsTailored(tables[id], heap, element, zt) :
               hist' = Append(hist,
                   Call("isTailored", id, element,
                        IF zt = <<>> THEN 0 ELSE Head(zt), Word(0), Len(zt),
                        st, Word(0), IF r.res THEN 1 ELSE 0, -1, r.ub))

\* the new CE not stored
ChangeCEDropped(tbl, position, newCE) == tbl

\* the new CE stored in the slot found and in the one behind it
ChangeCEAndNext(tbl, position, newCE) ==
    [tbl EXCEPT !.CEs = Put(Put(@, position, newCE), position + 1, newCE)]

\* changeContraction's write: tbl->CEs[position] = newCE
ChangeCE(tbl, position, newCE) ==
    IF position < Len(tbl.CEs)
    THEN [tbl EXCEPT !.CEs = Put(@, position, newCE)]
    ELSE tbl

\* what changeContraction returns when the element does not exist
ChangeNoElement == Word(0)

uprv_cnttab_changeContraction(id, element, codePoint, newCE, st) ==
    /\ CanCall(id)
    /\ ValidElement(tables[id], element)
    /\ UNCHANGED <<tables, mapping>>
    /\ IF U_FAILURE(st)
       THEN /\ heap' = heap
            /\ hist' = Append(hist, Call("change", id, element, codePoint,
                                  newCE, 0, st, Word(0), 0, -1, FALSE))
       ELSE LET addr == getContractionTable(tables[id], element)
            IN IF addr = NULL
               THEN /\ heap' = heap
                    /\ hist' = Append(hist,
                           Call("change", id, element, codePoint, newCE, 0,
                                st, ChangeNoElement, 0, -1, FALSE))
               ELSE \E o \in FindScan(heap[addr], codePoint, 0) :
                      IF o.pos = -1
                      THEN /\ heap' = heap
                           /\ hist' = Append(hist,
                                  Call("change", id, element, codePoint,
                                       newCE, 0, st, UCOL_NOT_FOUND, -1,
                                       Low24(element), o.ub))
                      ELSE /\ heap' = [heap EXCEPT
                                  ![addr] = ChangeCE(@, o.pos, newCE)]
                           /\ hist' = Append(hist,
                                  Call("change", id, element, codePoint,
                                       newCE, 0, st, Word(Low24(element)),
                                       o.pos, Low24(element), o.ub))

----------------------------------------------------------------------------
(* uprv_cnttab_constructTable: flattening                                  *)

\* a sum that starts from the position an earlier flatten left in the table
RECURSIVE TotalFromPosition(_, _, _)
TotalFromPosition(tb, hp, i) ==
    IF i = 0 THEN tb.position
    ELSE TotalFromPosition(tb, hp, i - 1) + Elem(tb, hp, i - 1).position

\* the sum of the positions of the elements of handles 0..i-1
RECURSIVE TotalBefore(_, _, _)
TotalBefore(tb, hp, i) ==
    IF i = 0 THEN 0
    ELSE TotalBefore(tb, hp, i - 1) + Elem(tb, hp, i - 1).position

\* offsets that count the element's own length too
ComputeOffsetsAfter(tb, hp, mainOffset) ==
    [i \in 1..tb.size |-> TotalBefore(tb, hp, i) + mainOffset]

\* for(i = 0; i<table->size; i++) {
\*     table->offsets[i] = table->position+mainOffset;
\*     table->position += table->elements[i]->position; }
ComputeOffsets(tb, hp, mainOffset) ==
    [i \in 1..tb.size |-> TotalBefore(tb, hp, i - 1) + mainOffset]

\* table->offsets[h]; beyond the offsets array the word read is junk[h]
OffsetRead(offs, h, junk) ==
    IF h < Len(offs) THEN At(offs, h) ELSE junk[h]

\* a reference looked up in the offsets a second time
RelocateTwice(offs, CE, junk) ==
    LET once == OffsetRead(offs, getContractOffset(CE), junk)
    IN IF isContraction(CE)
       THEN constructContractCE(IF once < Len(offs) THEN At(offs, once) ELSE once)
       ELSE CE

\* if(isContraction(CE)) CE = constructContractCE(offsets[getContractOffset(CE)])
Relocate(offs, CE, junk) ==
    IF isContraction(CE)
    THEN constructContractCE(OffsetRead(offs, getContractOffset(CE), junk))
    ELSE CE

RECURSIVE MaxCC(_, _)
MaxCC(cps, n) ==
    IF n <= 1 THEN 0
    ELSE LET cc == u_getCombiningClass(cps[n])
             m == MaxCC(cps, n - 1)
         IN IF cc > m THEN cc ELSE m

RECURSIVE MinCC(_, _)
MinCC(cps, n) ==
    IF n <= 1 THEN 255
    ELSE LET cc == u_getCombiningClass(cps[n])
             m == MinCC(cps, n - 1)
         IN IF cc < m THEN cc ELSE m

\* *cpPointer = ((ccMin==ccMax)?1:0 << 8) | ccMax;
\* 0 << 8 is the third operand of ?:, so the parenthesis is 1 or 0 and the
\* whole is that bit or-ed into ccMax (classes over slots 1..position-1)
Summary(tbl) ==
    LET ccMax == MaxCC(tbl.codePoints, tbl.position)
        ccMin == MinCC(tbl.codePoints, tbl.position)
    IN IF ccMin = ccMax /\ ccMax % 2 = 0 THEN ccMax + 1 ELSE ccMax

\* every code point copied, slot 0 too
FlatCodePointsVerbatim(tbl) == SubSeq(tbl.codePoints, 1, tbl.position)

\* the code points one element contributes: the summary in place of
\* slot 0, slots 1..position-1 copied
FlatCodePoints(tbl) ==
    IF tbl.position = 0 THEN <<>>
    ELSE <<Summary(tbl)>> \o SubSeq(tbl.codePoints, 2, tbl.position)

\* a copy one word short: the last slot keeps the '?' fill of the buffer
FlatCEsOneShort(tbl, offs, junk) ==
    [j \in 1..tbl.position |->
        IF j = tbl.position THEN QmCE ELSE Relocate(offs, tbl.CEs[j], junk)]

\* the CEs one element contributes: slots 0..position-1, relocated
FlatCEs(tbl, offs, junk) ==
    [j \in 1..tbl.position |-> Relocate(offs, tbl.CEs[j], junk)]

RECURSIVE StuffCPs(_, _, _)
StuffCPs(tb, hp, n) ==
    IF n = 0 THEN <<>>
    ELSE StuffCPs(tb, hp, n - 1) \o FlatCodePoints(Elem(tb, hp, n - 1))

RECURSIVE StuffCEs(_, _, _, _, _)
StuffCEs(tb, hp, offs, junk, n) ==
    IF n = 0 THEN <<>>
    ELSE StuffCEs(tb, hp, offs, junk, n - 1)
            \o FlatCEs(Elem(tb, hp, n - 1), offs, junk)

\* the handles beyond the offsets array that flattening table tb would look up
Dangling(tb, hp, map) ==
    {getContractOffset(ce) : ce \in
        {c \in UNION {{Elem(tb, hp, h).CEs[j] : j \in 1..Elem(tb, hp, h).position}
                        : h \in 0..(tb.size - 1)}
                \cup {map[c] : c \in DOMAIN map} :
            isContraction(c) /\ getContractOffset(c) >= tb.size}}

JunkOffsets == {0, 9}

\* a walk that stops one code point short: for(i = 0; i<0xFFFF; i++)
RelocateMappingBelow(map, offs, junk) ==
    [c \in DOMAIN map |->
        IF c < 65535 THEN Relocate(offs, map[c], junk) ELSE map[c]]

\* for(i = 0; i<=0xFFFF; i++) { CE = ucmp32_get(table->mapping, i);
\*     if(isContraction(CE)) { CE = constructContractCE(offsets[..]);
\*                             ucmp32_set(table->mapping, (UChar)i, CE); } }
RelocateMapping(map, offs, junk) ==
    [c \in DOMAIN map |-> Relocate(offs, map[c], junk)]

\* the k-th block malloc gives the current call: one no earlier call got
FreshBlock(k) == 3 * Len(hist) + k

\* a flatten that also rewrites the references inside the elements
constructTableInPlace(id, mainOffset, st) ==
    /\ CanCall(id)
    /\ LET tb == tables[id]
           offs == ComputeOffsets(tb, heap, mainOffset)
           total == TotalBefore(tb, heap, tb.size)
           junk == [h \in Dangling(tb, heap, mapping) |-> 0]
       IN /\ tables' = [tables EXCEPT ![id] =
                [tb EXCEPT !.position = total,
                           !.offsets = Buf(offs, FreshBlock(1)),
                           !.CEs = Buf(StuffCEs(tb, heap, offs, junk, tb.size),
                                       FreshBlock(2)),
                           !.codePoints = Buf(StuffCPs(tb, heap, tb.size),
                                              FreshBlock(3))]]
          /\ heap' = [a \in DOMAIN heap |->
                [heap[a] EXCEPT !.CEs =
                    [j \in DOMAIN heap[a].CEs |->
                        Relocate(offs, heap[a].CEs[j], junk)]]]
          /\ mapping' = RelocateMapping(mapping, offs, junk)
          /\ hist' = Append(hist,
                 Call("flatten", id, Word(0), 0, Word(0), mainOffset, st,
                      Word(0), total, -1, FALSE))

\* if(table->offsets != NULL) free(table->offsets); likewise CEs and
\* codePoints: the old blocks are freed and new ones malloc'ed
uprv_cnttab_constructTable(id, mainOffset, st) ==
    /\ CanCall(id)
    /\ UNCHANGED heap
    /\ LET tb == tables[id] IN
       IF U_FAILURE(st) \/ tb.size = 0
       THEN /\ UNCHANGED <<tables, mapping>>
            /\ hist' = Append(hist, Call("flatten", id, Word(0), 0, Word(0),
                                  mainOffset, st, Word(0), 0, -1, FALSE))
       ELSE LET offs == ComputeOffsets(tb, heap, mainOffset)
                total == TotalBefore(tb, heap, tb.size)
                dang == Dangling(tb, heap, mapping)
            IN \E junk \in [dang -> JunkOffsets] :
                 /\ tables' = [x \in TableIds |->
                       IF x # id THEN FreeIn(tables[x], BlocksOf(tb))
                       ELSE
                       [tb EXCEPT !.position = total,
                                  !.offsets = Buf(offs, FreshBlock(1)),
                                  !.CEs = Buf(StuffCEs(tb, heap, offs, junk,
                                                       tb.size), FreshBlock(2)),
                                  !.codePoints = Buf(StuffCPs(tb, heap, tb.size),
                                                     FreshBlock(3))]]
                 /\ mapping' = RelocateMapping(mapping, offs, junk)
                 /\ hist' = Append(hist,
                        Call("flatten", id, Word(0), 0, Word(0), mainOffset,
                             st, Word(0), total, -1,
                             dang # {} \/ Elem(tb, heap, tb.size - 1).position = 0))

----------------------------------------------------------------------------
(* Clone                                                                   *)

\* uprv_memcpy of n words out of a buffer of Len(data) words
CopyWords(data, n, undef) ==
    [i \in 1..n |-> IF i <= Len(data) THEN data[i] ELSE undef]

\* a copy cut down to the pairs in use
cloneContractionShrunk(t) ==
    [position |-> t.position,
     size |-> t.position,
     codePoints |-> CopyWords(t.codePoints, t.position, UninitCP),
     CEs |-> CopyWords(t.CEs, t.position, UninitCE),
     released |-> {}]

\* r->position = t->position; r->size = t->size; both buffers malloc'ed at
\* t->size words and t->size words copied
uprv_cnttab_cloneContraction(t) ==
    [position |-> t.position,
     size |-> t.size,
     codePoints |-> CopyWords(t.codePoints, t.size, UninitCP),
     CEs |-> CopyWords(t.CEs, t.size, UninitCE),
     released |-> {}]

\* a handle array that copies the source's element pointers
CloneElementsShared(t, base) ==
    [i \in 1..t.capacity |-> IF i <= t.size THEN t.elements[i] ELSE UninitPtr]

\* the clone's handle array: malloc'ed at the source's capacity, the first
\* `size` slots set to the cloned elements, the others never written
CloneElements(t, base) ==
    [i \in 1..t.capacity |-> IF i <= t.size THEN base + i ELSE UninitPtr]

\* if(t->CEs != NULL) { r->CEs = malloc(n words); memcpy(r->CEs, t->CEs, ..) }
\* else r->CEs = NULL;  likewise codePoints and offsets.  n is t->position
\* (t->size for offsets) as it is now: when the source got elements after
\* its flatten, n exceeds the words of the block and the memcpy reads past it.
CloneFlat(buf, n, undef, b) ==
    IF buf.null THEN NullBuf ELSE Buf(CopyWords(buf.data, n, undef), b)

uprv_cnttab_clone(src, dst) ==
    /\ tables[src].live /\ ~tables[dst].live
    /\ LET t == tables[src] IN
       /\ heap' = heap \o [i \in 1..t.size |->
                              uprv_cnttab_cloneContraction(Elem(t, heap, i - 1))]
       /\ tables' = [tables EXCEPT ![dst] =
             [live |-> TRUE,
              position |-> t.position,
              size |-> t.size,
              capacity |-> t.capacity,
              elements |-> CloneElements(t, Len(heap)),
              CEs |-> CloneFlat(t.CEs, t.position, UninitCE, FreshBlock(1)),
              codePoints |-> CloneFlat(t.codePoints, t.position, UninitCP,
                                       FreshBlock(2)),
              offsets |-> CloneFlat(t.offsets, t.size, -1, FreshBlock(3))]]
    /\ UNCHANGED mapping
    /\ hist' = Append(hist, Call("clone", src, Word(0), 0, Word(0), 0,
                                 U_ZERO_ERROR, Word(0), 0, -1, FALSE))

\* uprv_cnttab_close:
\*     for(i = 0; i<table->size; i++) {
\*         free(table->elements[i]->CEs);
\*         free(table->elements[i]->codePoints);
\*         free(table->elements[i]); }
\*     free(table->elements); ...
\* The loop reads through table->elements (a NULL handle array with
\* size > 0 is dereferenced) and hands each element's two buffer pointers
\* to free (a block realloc has released is freed again).
CloseThroughNull(tb) == tb.size > 0 /\ tb.elements = NullElements

CloseFreesReleased(tb, hp) ==
    /\ tb.elements # NullElements
    /\ \E h \in 0..(tb.size - 1) : Elem(tb, hp, h).released # {}

uprv_cnttab_close(id) ==
    /\ CanCall(id)
    /\ tables' = [x \in TableIds |->
                    IF x = id THEN NoTable
                    ELSE FreeIn(tables[x], BlocksOf(tables[id]))]
    /\ UNCHANGED <<heap, mapping>>
    /\ hist' = Append(hist,
           Call("close", id, Word(0), 0, Word(0), 0, U_ZERO_ERROR, Word(0),
                0, -1,
                CloseThroughNull(tables[id])
                    \/ CloseFreesReleased(tables[id], heap)))

\* the caller stores a CE in the mapping (ucmp32_set on the CompactIntArray
\* the table was opened with)
SetMappingTo(c, CE) ==
    /\ mapping' = [mapping EXCEPT ![c] = CE]
    /\ UNCHANGED <<tables, heap>>
    /\ hist' = Append(hist, Call("setmap", "t", Word(0), c, CE, 0,
                                 U_ZERO_ERROR, Word(0), 0, -1, FALSE))

----------------------------------------------------------------------------
(* Inputs of the model                                                     *)

SENTINEL == Word(UPRV_CNTTAB_NEWELEMENT)

D1000 == Direct(4096)
D2000 == Direct(8192)

\* a weight no earlier call of the history passed
FreshCE == Direct(4096 * (Len(hist) + 1))

\* the code points of the mapping the model follows: both ends of the
\* domain 0..0xFFFF and one in between
MappedCPs == {0, 65, 65535}

Init ==
    /\ tables = [id \in TableIds |-> IF id = "t" THEN uprv_cnttab_open ELSE NoTable]
    /\ heap = <<>>
    /\ mapping = [c \in MappedCPs |-> D1000]
    /\ hist = <<>>

Ops(h) == {h[k].op : k \in 1..Len(h)}

\* the calls of the history that stored a pair in the element of handle h
\* of table id
Stores(id, h) ==
    {k \in 1..Len(hist) :
        /\ hist[k].tbl = id /\ hist[k].key = h
        /\ hist[k].op \in {"add", "insert", "set", "changeLast"}}

InsertOnly(id, h) == \A k \in Stores(id, h) : hist[k].op = "insert"

Handles(id) == 0..(tables[id].size - 1)

----------------------------------------------------------------------------
(* Spec: a tailoring builds one table (add, insert, change), flattens it   *)
(* once and then looks code points up.                                     *)

MaxOps == 4

Building == Len(hist) < MaxOps /\ "flatten" \notin Ops(hist)

AddContraction ==
    /\ Building
    /\ \E el \in {SENTINEL, Word(0)}, c \in {790} :
          uprv_cnttab_addContraction("t", el, c, FreshCE, U_ZERO_ERROR, MemOK)

InsertContraction ==
    /\ Building
    /\ \E el \in {SENTINEL, Word(0)}, c \in {768, 790} :
          uprv_cnttab_insertContraction("t", el, c, FreshCE, U_ZERO_ERROR, MemOK)

ChangeContraction ==
    /\ Building
    /\ \E el \in {SENTINEL, Word(0), Word(1)}, c \in {768, 790} :
          uprv_cnttab_changeContraction("t", el, c, FreshCE, U_ZERO_ERROR)

ConstructTable ==
    /\ Building
    /\ uprv_cnttab_constructTable("t", 0, U_ZERO_ERROR)

FindCE ==
    /\ Len(hist) < MaxOps /\ "flatten" \in Ops(hist)
    /\ \E el \in {Word(0), Word(1)}, c \in {768, 790} :
          uprv_cnttab_findCE("t", el, c, U_ZERO_ERROR)

Next ==
    \/ AddContraction
    \/ InsertContraction
    \/ ChangeContraction
    \/ ConstructTable
    \/ FindCE

Spec == Init /\ [][Next]_vars

\* the add and insert calls of the history on table id
Additions(id) ==
    {k \in 1..Len(hist) :
        hist[k].tbl = id /\ hist[k].op \in {"add", "insert"}
            /\ ~U_FAILURE(hist[k].status)}

\* every add or insert call went to a handle of its own
DistinctHandles(id) ==
    \A k1, k2 \in Additions(id) : hist[k1].key = hist[k2].key => k1 = k2

\* the changeContraction calls after call k that matched k's pair
ChangesOf(k) ==
    {j \in (k + 1)..Len(hist) :
        /\ hist[j].op = "change" /\ hist[j].tbl = hist[k].tbl
        /\ hist[j].key = hist[k].key /\ hist[j].cp = hist[k].cp
        /\ hist[j].iret >= 0}

\* the CE call k stored, or the one the last matching change wrote
ExpectedCE(k) ==
    IF ChangesOf(k) = {}
    THEN hist[k].value
    ELSE hist[CHOOSE j \in ChangesOf(k) : \A i \in ChangesOf(k) : i <= j].value

\* C2: after add/insert calls with distinct handles and a flatten, findCE
\* on an added or inserted (handle, code point) returns the CE that was
\* added or inserted, or the one changeContraction last wrote for it.
C2_FindReturnsStored ==
    (/\ Len(hist) > 0
     /\ Last.op = "findCE"
     /\ "flatten" \in Ops(hist)
     /\ DistinctHandles("t"))
      => \A k \in Additions("t") :
            (hist[k].key = Low24(Last.element) /\ hist[k].cp = Last.cp)
                => Last.ret = ExpectedCE(k)

\* a pair added, changed, flattened and then found with the changed CE
C2_Witness ==
    /\ Len(hist) = 4
    /\ hist[1].op = "add" /\ hist[2].op = "change" /\ hist[2].iret = 0
    /\ hist[3].op = "flatten" /\ hist[4].op = "findCE"
    /\ hist[4].cp = hist[1].cp /\ Low24(hist[4].element) = hist[1].key
    /\ hist[4].ret = hist[2].value /\ hist[2].value # hist[1].value

\* the handle is not one of table id's allocated handles
Unallocated(id, element) ==
    \/ Low24(element) = UPRV_CNTTAB_NEWELEMENT
    \/ Low24(element) >= tables[id].size

\* no pair of the element of this handle has the code point
AbsentCP(id, element, codePoint) ==
    /\ ~Unallocated(id, element)
    /\ LET tbl == Elem(tables[id], heap, Low24(element))
       IN \A j \in 0..(tbl.position - 1) : At(tbl.codePoints, j) # codePoint

\* the step is one more call, of operation op
Calls(op) == Len(hist') = Len(hist) + 1 /\ hist'[Len(hist')].op = op

\* C6: changeContraction with a handle that is not allocated, or a code
\* point that is not among the element's pairs, returns UCOL_NOT_FOUND,
\* allocates nothing and leaves every pair of every element unchanged.
C6_ChangeMissReturnsNotFound ==
    [][(/\ Calls("change")
        /\ \/ Unallocated("t", Last'.element)
           \/ AbsentCP("t", Last'.element, Last'.cp))
          => (/\ Last'.ret = UCOL_NOT_FOUND
              /\ tables' = tables
              /\ heap' = heap)]_vars

----------------------------------------------------------------------------
(* SpecInsert: elements populated through insertContraction alone          *)

MaxInserts == 4

SortedInsert ==
    /\ Len(hist) < MaxInserts
    /\ \E el \in {SENTINEL, Word(0)}, c \in {768, 769, 790} :
          uprv_cnttab_insertContraction("t", el, c, FreshCE, U_ZERO_ERROR, MemOK)

NextInsert == SortedInsert

SpecInsert == Init /\ [][NextInsert]_vars

\* the code points of slots 1..position-1 never go down
NonDecreasingFrom1(tbl) ==
    \A j \in 1..(tbl.position - 2) :
        At(tbl.codePoints, j) <= At(tbl.codePoints, j + 1)

\* the code points of slots 1..position-1 go strictly up
AscendingFrom1(tbl) ==
    \A j \in 1..(tbl.position - 2) :
        At(tbl.codePoints, j) < At(tbl.codePoints, j + 1)

\* C3: after any sequence of insertContraction calls on an element, its
\* code points from slot 1 up to its position are non-decreasing.
C3_InsertNonDecreasing ==
    \A h \in Handles("t") :
        InsertOnly("t", h) => NonDecreasingFrom1(Elem(tables["t"], heap, h))

\* an element that took three inserts, the first with the greatest code
\* point and a later one with a smaller one, and was grown on the way
C3_Witness ==
    /\ Len(hist) >= 3
    /\ \A k \in 1..3 : hist[k].key = 0
    /\ hist[1].cp = 790 /\ hist[2].cp = 768 /\ hist[3].cp = 769
    /\ Elem(tables["t"], heap, 0).position = 3
    /\ Elem(tables["t"], heap, 0).size = 2 * INIT_EXP_TABLE_SIZE

\* the code points the history inserted in element h are pairwise distinct
DistinctInserts(id, h) ==
    \A k1, k2 \in Stores(id, h) : hist[k1].cp = hist[k2].cp => k1 = k2

\* C9 as stated: an element populated only through insertContraction has
\* strictly ascending code points from slot 1 on, also when a code point is
\* inserted twice.
C9_Original ==
    \A h \in Handles("t") :
        InsertOnly("t", h) => AscendingFrom1(Elem(tables["t"], heap, h))

\* C9 amended: an element populated only through insertContraction with
\* pairwise distinct code points has strictly ascending code points from
\* slot 1 on.
C9_DistinctInsertsAscending ==
    \A h \in Handles("t") :
        InsertOnly("t", h) /\ DistinctInserts("t", h)
            => AscendingFrom1(Elem(tables["t"], heap, h))

\* three distinct code points inserted in one element, not in order
C9_Witness ==
    /\ Len(hist) = 3
    /\ \A k \in 1..3 : hist[k].key = 0
    /\ hist[1].cp = 769 /\ hist[2].cp = 790 /\ hist[3].cp = 768
    /\ DistinctInserts("t", 0)
    /\ Elem(tables["t"], heap, 0).position = 3

----------------------------------------------------------------------------
(* SpecFlatten: elements that refer to each other are appended, the        *)
(* caller stores a returned reference in the mapping, and the table is     *)
(* flattened at a main offset.                                             *)

MaxFlattenOps == 5

NotFlattened == Len(hist) < MaxFlattenOps /\ tables["t"].offsets.null

RefValues ==
    {D2000, constructContractCE(0), constructContractCE(1),
     constructContractCE(2)}

AppendRef ==
    /\ NotFlattened
    /\ \E el \in {SENTINEL, Word(0)}, v \in RefValues :
          uprv_cnttab_addContraction("t", el, 769, v, U_ZERO_ERROR, MemOK)

SetMapping ==
    /\ NotFlattened
    /\ Len(hist) > 0 /\ Last.op = "add"
    /\ SetMappingTo(65, Last.ret)

Flatten ==
    /\ NotFlattened
    /\ \E mainOffset \in {0, 5} :
          uprv_cnttab_constructTable("t", mainOffset, U_ZERO_ERROR)

NextFlatten == AppendRef \/ SetMapping \/ Flatten

SpecFlatten == Init /\ [][NextFlatten]_vars

\* the end-to-end case: mapping[0x0041] = Direct(0x1000), then
\* addContraction(sentinel, 0x0301, Direct(0x2000)), mapping[0x0041] set to
\* the reference returned, flatten with mainOffset 0
EndToEnd ==
    /\ Len(hist) = 3
    /\ hist[1].op = "add" /\ hist[1].element = SENTINEL
    /\ hist[1].cp = 769 /\ hist[1].value = D2000
    /\ hist[1].ret = constructContractCE(hist[1].key)
    /\ hist[2].op = "setmap" /\ hist[2].cp = 65 /\ hist[2].value = hist[1].ret
    /\ hist[3].op = "flatten" /\ hist[3].offset = 0

FlatCEAt(id, mainOffset, h, j) ==
    At(tables[id].CEs.data, At(tables[id].offsets.data, h) - mainOffset + j)

\* C4: after flatten every CE of an element that refers to an allocated
\* handle g is, in the flattened buffer, the reference to offsets[g],
\* whatever the order of g and the handle of the element holding it.
C4_RelocatedOnce ==
    (Len(hist) > 0 /\ Last.op = "flatten" /\ ~tables["t"].offsets.null)
      => \A h \in Handles("t") :
            LET tbl == Elem(tables["t"], heap, h)
            IN \A j \in 0..(tbl.position - 1) :
                LET CE == At(tbl.CEs, j)
                IN (isContraction(CE) /\ getContractOffset(CE) \in Handles("t"))
                    => FlatCEAt("t", Last.offset, h, j) =
                         constructContractCE(
                            At(tables["t"].offsets.data, getContractOffset(CE)))

\* a chain 0 -> 1 -> 2 flattened with mainOffset 0, in which offsets[1] is
\* not a fixed point of the offset table
C4_Witness ==
    /\ Len(hist) = 5 /\ Last.op = "flatten" /\ Last.offset = 0
    /\ tables["t"].size = 3
    /\ tables["t"].offsets.data = <<0, 2, 3>>
    /\ At(Elem(tables["t"], heap, 0).CEs, 0) = constructContractCE(1)
    /\ At(Elem(tables["t"], heap, 1).CEs, 0) = constructContractCE(2)
    /\ FlatCEAt("t", 0, 0, 0) = constructContractCE(2)
    /\ FlatCEAt("t", 0, 1, 0) = constructContractCE(3)

\* the positions of the elements of table id, by handle + 1
Positions(id) ==
    [i \in 1..tables[id].size |-> Elem(tables[id], heap, i - 1).position]

\* C10: flatten(mainOffset) sets offsets[h] to mainOffset plus the sum of
\* the positions of the elements 0..h-1 and returns the sum of all
\* positions; with no element it returns 0 and changes nothing.
C10_OffsetsArePrefixSums ==
    [][Calls("flatten")
        => IF tables["t"].size = 0
           THEN /\ Last'.iret = 0
                /\ tables' = tables /\ heap' = heap /\ mapping' = mapping
           ELSE /\ \A h \in Handles("t") :
                      At(tables'["t"].offsets.data, h) =
                          Last'.offset + SumTo(Positions("t"), h)
                /\ Len(tables'["t"].offsets.data) = tables["t"].size
                /\ Last'.iret = SumTo(Positions("t"), tables["t"].size)]_vars

\* two elements of lengths 2 and 1 flattened at main offset 5
C10_Witness ==
    /\ Len(hist) = 4 /\ Last.op = "flatten" /\ Last.offset = 5
    /\ tables["t"].size = 2
    /\ Positions("t") = <<2, 1>>
    /\ tables["t"].offsets.data = <<5, 7>>
    /\ Last.iret = 3

----------------------------------------------------------------------------
(* SpecSet: pairs are appended and written at explicit offsets             *)

MaxSetOps == 4

SetOffsets == 0..(2 * INIT_EXP_TABLE_SIZE)

SetAppend ==
    /\ Len(hist) < MaxSetOps
    /\ \E el \in {SENTINEL, Word(0)} :
          uprv_cnttab_addContraction("t", el, 768, FreshCE, U_ZERO_ERROR, MemOK)

SetContraction ==
    /\ Len(hist) < MaxSetOps
    /\ \E el \in {SENTINEL, Word(0)}, offset \in SetOffsets :
          uprv_cnttab_setContraction("t", el, offset, 790, FreshCE,
                                     U_ZERO_ERROR, MemOK)

NextSet == SetAppend \/ SetContraction

SpecSet == Init /\ [][NextSet]_vars

\* C7: setContraction on an existing element with offset >= its size sets
\* U_INDEX_OUTOFBOUNDS_ERROR and leaves the element's code points, CEs,
\* position and size as they were; with offset < size it succeeds and
\* stores (codePoint, CE) at that offset.
C7_SetBounds ==
    [][(Calls("set") /\ ~Unallocated("t", Last'.element))
        => LET h == Low24(Last'.element)
               before == Elem(tables["t"], heap, h)
               after == Elem(tables'["t"], heap', h)
           IN IF Last'.offset >= before.size
              THEN /\ Last'.status = U_INDEX_OUTOFBOUNDS_ERROR
                   /\ after = before
              ELSE /\ Last'.status = U_ZERO_ERROR
                   /\ Last'.ret = constructContractCE(h)
                   /\ At(after.codePoints, Last'.offset) = Last'.cp
                   /\ At(after.CEs, Last'.offset) = Last'.value
                   /\ after.position = before.position
                   /\ after.size = before.size]_vars

\* a set at offset = size refused on an element that was grown to twice
\* the initial size
C7_Witness ==
    /\ Len(hist) = 4 /\ Last.op = "set" /\ Last.key = 0
    /\ Last.element = Word(0)
    /\ Elem(tables["t"], heap, 0).size = 2 * INIT_EXP_TABLE_SIZE
    /\ Elem(tables["t"], heap, 0).position = 3
    /\ Last.offset = Elem(tables["t"], heap, 0).size
    /\ Last.status = U_INDEX_OUTOFBOUNDS_ERROR

----------------------------------------------------------------------------
(* SpecClone: a table is built, cloned, and both tables are changed        *)

MaxCloneOps == 4

Tailoring(id) == Len(hist) < MaxCloneOps /\ tables[id].live

CloneAdd ==
    \E id \in TableIds, el \in {SENTINEL, Word(0)} :
        /\ Tailoring(id)
        /\ uprv_cnttab_addContraction(id, el, 790, FreshCE, U_ZERO_ERROR, MemOK)

CloneInsert ==
    \E id \in TableIds, el \in {SENTINEL, Word(0)} :
        /\ Tailoring(id)
        /\ uprv_cnttab_insertContraction(id, el, 768, FreshCE, U_ZERO_ERROR, MemOK)

CloneSet ==
    \E id \in TableIds, offset \in {0, 1} :
        /\ Tailoring(id)
        /\ uprv_cnttab_setContraction(id, Word(0), offset, 769, FreshCE,
                                      U_ZERO_ERROR, MemOK)

CloneChange ==
    \E id \in TableIds, c \in {768, 790} :
        /\ Tailoring(id)
        /\ uprv_cnttab_changeContraction(id, Word(0), c, FreshCE,
                                         U_ZERO_ERROR)

CloneChangeLast ==
    \E id \in TableIds :
        /\ Tailoring(id)
        /\ uprv_cnttab_changeLastCE(id, Word(0), FreshCE, U_ZERO_ERROR, MemOK)

Clone ==
    /\ Len(hist) < MaxCloneOps
    /\ uprv_cnttab_clone("t", "r")

NextClone ==
    \/ CloneAdd
    \/ CloneInsert
    \/ CloneSet
    \/ CloneChange
    \/ CloneChangeLast
    \/ Clone

SpecClone == Init /\ [][NextClone]_vars

Mutators == {"add", "insert", "set", "change", "changeLast"}

\* table id as its caller sees it: the struct and the elements of its handles
View(id) ==
    [table |-> tables[id],
     elems |-> [h \in Handles(id) |-> Elem(tables[id], heap, h)]]

\* C5: once the table is cloned, a mutating call on the clone leaves the
\* original (every element's pairs, position and size) unchanged, and a
\* mutating call on the original leaves the clone unchanged.
C5_CloneIndependent ==
    [][(/\ Len(hist') = Len(hist) + 1
        /\ Last'.op \in Mutators
        /\ tables["r"].live)
        => /\ Last'.tbl = "r" => View("t")' = View("t")
           /\ Last'.tbl = "t" => View("r")' = View("r")]_vars

\* the clone's element 0 was changed where the original had a pair, and
\* the two now differ
C5_Witness ==
    /\ Len(hist) = 3
    /\ hist[1].op = "insert" /\ hist[2].op = "clone"
    /\ hist[3].op = "change" /\ hist[3].tbl = "r" /\ hist[3].iret = 0
    /\ At(Elem(tables["r"], heap, 0).CEs, 0) = hist[3].value
    /\ At(Elem(tables["t"], heap, 0).CEs, 0) = hist[1].value

----------------------------------------------------------------------------
(* SpecMapping: elements are appended, the caller stores references and    *)
(* other CEs anywhere in the mapping, and the table is flattened.          *)

MaxMappingOps == 4

MapAppend ==
    /\ Len(hist) < MaxMappingOps /\ tables["t"].offsets.null
    /\ \E el \in {SENTINEL, Word(0)} :
          uprv_cnttab_addContraction("t", el, 769, FreshCE, U_ZERO_ERROR, MemOK)

MapStore ==
    /\ Len(hist) < MaxMappingOps /\ tables["t"].offsets.null
    /\ \E c \in MappedCPs,
          CE \in {constructContractCE(0), constructContractCE(1), D2000} :
          SetMappingTo(c, CE)

MapFlatten ==
    /\ Len(hist) < MaxMappingOps /\ tables["t"].offsets.null
    /\ \E mainOffset \in {0, 5} :
          uprv_cnttab_constructTable("t", mainOffset, U_ZERO_ERROR)

NextMapping == MapAppend \/ MapStore \/ MapFlatten

SpecMapping == Init /\ [][NextMapping]_vars

\* C11: a flatten of a table with elements turns every mapping[c] that was
\* the reference to an allocated handle h into the reference to offsets[h],
\* and leaves every mapping[c] that was not a reference as it was, for
\* every code point c of the mapping, 0 and 0xFFFF included.
C11_MappingRelocated ==
    [][(Calls("flatten") /\ tables["t"].size > 0)
        => \A c \in DOMAIN mapping :
              IF isContraction(mapping[c])
              THEN getContractOffset(mapping[c]) \in Handles("t")
                    => mapping'[c] = constructContractCE(
                          At(tables'["t"].offsets.data,
                             getContractOffset(mapping[c])))
              ELSE mapping'[c] = mapping[c]]_vars

\* two elements, mapping[0xFFFF] set to the reference to handle 1, the
\* table flattened at main offset 5
C11_Witness ==
    /\ Len(hist) = 4
    /\ hist[3].op = "setmap" /\ hist[3].cp = 65535
    /\ hist[3].value = constructContractCE(1)
    /\ hist[4].op = "flatten" /\ hist[4].offset = 5
    /\ tables["t"].offsets.data = <<5, 6>>
    /\ mapping[65535] = constructContractCE(6)
    /\ mapping[0] = D1000 /\ mapping[65] = D1000

----------------------------------------------------------------------------
(* The summary flatten writes, checked on the behaviours of Spec           *)

\* the combining classes of the code points in slots 1..position-1
ClassesFrom1(tbl) ==
    {u_getCombiningClass(At(tbl.codePoints, j)) : j \in 1..(tbl.position - 1)}

\* the packed summary: the maximum class in bits 0..7 and, in bit 8,
\* whether the minimum and the maximum are equal (no class at all: the
\* initial maximum 0 and minimum 255, which differ)
PackedSummary(tbl) ==
    LET S == ClassesFrom1(tbl)
        max == IF S = {} THEN 0 ELSE CHOOSE x \in S : \A y \in S : y <= x
        min == IF S = {} THEN 255 ELSE CHOOSE x \in S : \A y \in S : x <= y
    IN max + (IF min = max THEN 256 ELSE 0)

\* C12: after flatten, the flattened code point at each element's first
\* position is the packed summary (maximum class in the low 8 bits, bit 8
\* set exactly when minimum and maximum are equal) and the code points of
\* slots 1..position-1 are copied as they are.
C12_SummaryPacked ==
    (Len(hist) > 0 /\ Last.op = "flatten" /\ ~tables["t"].offsets.null)
      => \A h \in Handles("t") :
            LET tbl == Elem(tables["t"], heap, h)
                at == At(tables["t"].offsets.data, h) - Last.offset
            IN tbl.position >= 1
                => /\ At(tables["t"].codePoints.data, at) = PackedSummary(tbl)
                   /\ \A j \in 1..(tbl.position - 1) :
                        At(tables["t"].codePoints.data, at + j) =
                            At(tbl.codePoints, j)

----------------------------------------------------------------------------
(* SpecAlloc: the four operations that create an element on demand, called *)
(* with the new-element value and with handles                             *)

MaxAllocOps == 4

AllocAdd ==
    /\ Len(hist) < MaxAllocOps
    /\ \E el \in {SENTINEL, Word(0), Word(1)} :
          uprv_cnttab_addContraction("t", el, 790, FreshCE, U_ZERO_ERROR, MemOK)

AllocInsert ==
    /\ Len(hist) < MaxAllocOps
    /\ \E el \in {SENTINEL, Word(0), Word(1)} :
          uprv_cnttab_insertContraction("t", el, 768, FreshCE, U_ZERO_ERROR, MemOK)

AllocSet ==
    /\ Len(hist) < MaxAllocOps
    /\ \E el \in {SENTINEL, Word(0), Word(1)} :
          uprv_cnttab_setContraction("t", el, 0, 769, FreshCE, U_ZERO_ERROR, MemOK)

AllocChangeLast ==
    /\ Len(hist) < MaxAllocOps
    /\ \E el \in {SENTINEL, Word(0), Word(1)} :
          uprv_cnttab_changeLastCE("t", el, FreshCE, U_ZERO_ERROR, MemOK)

NextAlloc == AllocAdd \/ AllocInsert \/ AllocSet \/ AllocChangeLast

SpecAlloc == Init /\ [][NextAlloc]_vars

\* the calls of the history that resolved to a handle no earlier call had
\* resolved to: the allocations
AllocCalls ==
    {k \in 1..Len(hist) :
        hist[k].key >= 0 /\ \A j \in 1..(k - 1) : hist[j].key # hist[k].key}

\* the k-th allocation got handle k-1, and the handles 0..size-1 are the
\* allocated ones, each with an element of its own
DenseHandles ==
    /\ \A k \in AllocCalls :
          hist[k].key = Cardinality({j \in AllocCalls : j < k})
    /\ tables["t"].size = Cardinality(AllocCalls)
    /\ \A h1, h2 \in Handles("t") :
          /\ At(tables["t"].elements, h1) \in 1..Len(heap)
          /\ At(tables["t"].elements, h1) = At(tables["t"].elements, h2)
                => h1 = h2

\* C13: before flatten, every call of addContraction, insertContraction,
\* setContraction or changeLastCE with the new-element value allocates
\* exactly one element and resolves to handle `size` (the k-th allocation
\* to k-1); with an allocated handle it allocates none and resolves to
\* that handle's element; no handle is given out twice and no allocated
\* handle changes its element.
C13_HandlesDense ==
    [][(Len(hist') = Len(hist) + 1)
        => LET e == Low24(Last'.element)
               tb == tables["t"]
           IN /\ e = UPRV_CNTTAB_NEWELEMENT
                   => /\ tables'["t"].size = tb.size + 1
                      /\ Len(heap') = Len(heap) + 1
                      /\ Last'.key = tb.size
              /\ e < tb.size
                   => /\ tables'["t"].size = tb.size
                      /\ Len(heap') = Len(heap)
                      /\ Last'.key = e
              /\ \A h \in Handles("t") :
                    At(tables'["t"].elements, h) = At(tb.elements, h)
              /\ DenseHandles']_vars

\* three allocations through three different operations, with a call on
\* an allocated handle in between, the handle array grown
C13_Witness ==
    /\ Len(hist) = 4
    /\ hist[1].op = "add" /\ hist[1].element = SENTINEL /\ hist[1].key = 0
    /\ hist[2].op = "set" /\ hist[2].element = SENTINEL /\ hist[2].key = 1
    /\ hist[3].op = "insert" /\ hist[3].element = Word(0) /\ hist[3].key = 0
    /\ hist[4].op = "changeLast" /\ hist[4].element = SENTINEL
    /\ hist[4].key = 2
    /\ tables["t"].size = 3
    /\ tables["t"].capacity = 2 * INIT_EXP_TABLE_SIZE

----------------------------------------------------------------------------
(* SpecLookup: elements are populated through insertContraction, then one  *)
(* lookup is made, with any handle                                         *)

MaxLookupOps == 4

LookupHandles == {SENTINEL, Word(0), Word(1), Word(2), Word(4)}

Populating == Len(hist) < MaxLookupOps /\ Ops(hist) \subseteq {"insert"}

LookupInsert ==
    /\ Populating
    /\ \E el \in {SENTINEL, Word(0)}, c \in {768, 790} :
          uprv_cnttab_insertContraction("t", el, c, FreshCE, U_ZERO_ERROR, MemOK)

LookupFindCE ==
    /\ Populating
    /\ \E el \in LookupHandles, c \in {768, FillCP} :
          uprv_cnttab_findCE("t", el, c, U_ZERO_ERROR)

LookupFindCP ==
    /\ Populating
    /\ \E el \in LookupHandles, c \in {768, FillCP} :
          uprv_cnttab_findCP("t", el, c, U_ZERO_ERROR)

NextLookup == LookupInsert \/ LookupFindCE \/ LookupFindCP

SpecLookup == Init /\ [][NextLookup]_vars

\* what a lookup call reports for "not found"
Missed(call) ==
    /\ call.op = "findCE" => call.ret = UCOL_NOT_FOUND
    /\ call.op = "findCP" => call.iret = -1

\* C15: findCE and findCP with a handle that is not allocated (the
\* new-element value, a handle from `size` up to the capacity of the handle
\* array, or one at or beyond that capacity) report not found and read
\* nothing outside the handle array.
C15_UnallocatedNotFound ==
    [][((Calls("findCE") \/ Calls("findCP"))
            /\ Unallocated("t", Last'.element))
        => (Missed(Last') /\ ~Last'.ub)]_vars

\* C16: on an element built through insertContraction alone, findCE and
\* findCP report not found for a code point that none of the pairs in
\* slots 0..position-1 has, and never report a slot at or beyond position.
C16_AbsentNotFound ==
    [][((Calls("findCE") \/ Calls("findCP"))
            /\ ~Unallocated("t", Last'.element)
            /\ InsertOnly("t", Low24(Last'.element)))
        => /\ AbsentCP("t", Last'.element, Last'.cp) => Missed(Last')
           /\ Last'.iret <
                Elem(tables["t"], heap, Low24(Last'.element)).position]_vars

----------------------------------------------------------------------------
(* SpecRead: a table is built and flattened, then read by any number of    *)
(* lookups in any order                                                    *)

MaxReadOps == 5

Flattened == "flatten" \in Ops(hist)

ReadBuild ==
    /\ Len(hist) < MaxReadOps /\ ~Flattened
    /\ \E el \in {SENTINEL, Word(0)}, v \in {FreshCE, constructContractCE(1)} :
          uprv_cnttab_addContraction("t", el, 790, v, U_ZERO_ERROR, MemOK)

ReadFlatten ==
    /\ Len(hist) < MaxReadOps /\ ~Flattened
    /\ uprv_cnttab_constructTable("t", 0, U_ZERO_ERROR)

ReadFindCE ==
    /\ Len(hist) < MaxReadOps /\ Flattened
    /\ \E el \in {Word(0), Word(1)}, c \in {768, 790} :
          uprv_cnttab_findCE("t", el, c, U_ZERO_ERROR)

ReadFindCP ==
    /\ Len(hist) < MaxReadOps /\ Flattened
    /\ \E el \in {Word(0), Word(1)}, c \in {768, 790} :
          uprv_cnttab_findCP("t", el, c, U_ZERO_ERROR)

ReadGetCE ==
    /\ Len(hist) < MaxReadOps /\ Flattened
    /\ \E el \in {Word(0), Word(1)}, position \in {0, 1} :
          uprv_cnttab_getCE("t", el, position, U_ZERO_ERROR)

ReadIsTailored ==
    /\ Len(hist) < MaxReadOps /\ Flattened
    /\ \E zt \in {<<790>>, <<790, 790>>, <<768>>} :
          uprv_cnttab_isTailored("t", Word(0), zt, U_ZERO_ERROR)

NextRead ==
    \/ ReadBuild
    \/ ReadFlatten
    \/ ReadFindCE
    \/ ReadFindCP
    \/ ReadGetCE
    \/ ReadIsTailored

SpecRead == Init /\ [][NextRead]_vars

ReadOps == {"findCE", "findCP", "getCE", "isTailored"}

\* two read calls of the history after the flatten with the same arguments
\* that read only defined memory returned the same
ReadsAgree ==
    \A j, k \in 1..Len(hist) :
        (/\ hist[j].op \in ReadOps /\ hist[j].op = hist[k].op
         /\ hist[j].element = hist[k].element /\ hist[j].cp = hist[k].cp
         /\ hist[j].offset = hist[k].offset
         /\ ~hist[j].ub /\ ~hist[k].ub)
        => hist[j].ret = hist[k].ret /\ hist[j].iret = hist[k].iret

\* C19: after flatten, a call of findCE, findCP, getCE or isTailored
\* changes neither the table (elements, flattened buffers, offsets, size)
\* nor the mapping, and calls with the same arguments return the same
\* wherever they stand among the other reads.
C19_ReadsChangeNothing ==
    [][(Flattened /\ Len(hist') = Len(hist) + 1 /\ Last'.op \in ReadOps)
        => /\ tables' = tables
           /\ heap' = heap
           /\ mapping' = mapping
           /\ ReadsAgree']_vars

\* the same findCE before and after an isTailored call on the flattened
\* table, both finding the stored CE
C19_Witness ==
    /\ Len(hist) = 5
    /\ hist[1].op = "add" /\ hist[2].op = "flatten"
    /\ hist[3].op = "findCE" /\ hist[3].cp = 790
    /\ hist[3].element = Word(0) /\ hist[3].ret = hist[1].value
    /\ hist[4].op = "isTailored" /\ hist[4].iret = 1
    /\ hist[5].op = "findCE" /\ hist[5].cp = 790
    /\ hist[5].element = Word(0) /\ hist[5].ret = hist[3].ret
    /\ ~tables["t"].offsets.null

----------------------------------------------------------------------------
(* What clone copies, checked on the behaviours of SpecClone               *)

\* the pairs in slots 0..position-1 of an element
PairsOf(tbl) ==
    [j \in 1..tbl.position |-> <<tbl.codePoints[j], tbl.CEs[j]>>]

\* C20 as stated: every element of the clone has the position and the
\* pairs below it of the source element, and a size equal to that position.
C20_Original ==
    [][Calls("clone")
        => \A h \in Handles("t") :
              LET te == Elem(tables["t"], heap, h)
                  re == Elem(tables'["r"], heap', h)
              IN /\ re.position = te.position
                 /\ PairsOf(re) = PairsOf(te)
                 /\ re.size = te.position]_vars

\* C20 amended: every element of the clone has the position and the pairs
\* below it of the source element, and the source element's size: all
\* `size` slots are copied, the unused ones included.
C20_CloneKeepsSize ==
    [][Calls("clone")
        => /\ tables'["r"].size = tables["t"].size
           /\ \A h \in Handles("t") :
                 LET te == Elem(tables["t"], heap, h)
                     re == Elem(tables'["r"], heap', h)
                 IN /\ re.position = te.position
                    /\ PairsOf(re) = PairsOf(te)
                    /\ re.size = te.size
                    /\ re.codePoints = te.codePoints
                    /\ re.CEs = te.CEs]_vars

\* a clone of a table whose element 0 has one pair in two slots
C20_Witness ==
    /\ Len(hist) = 2 /\ hist[1].op = "add" /\ hist[2].op = "clone"
    /\ Elem(tables["t"], heap, 0).position = 1
    /\ Elem(tables["t"], heap, 0).size = INIT_EXP_TABLE_SIZE
    /\ Elem(tables["r"], heap, 0).position = 1
    /\ Elem(tables["r"], heap, 0).size = INIT_EXP_TABLE_SIZE
    /\ At(tables["r"].elements, 0) # At(tables["t"].elements, 0)

----------------------------------------------------------------------------
(* SpecNoMem: a table is built with an allocator that may refuse a         *)
(* realloc; the build stops at the first failure and the table is closed.  *)

MaxNoMemOps == 4

MemOutcomes == {MemOK, NoMemGrow, NoMemCEs, NoMemCPs, NoMemElements}

\* a call of the history left U_MEMORY_ALLOCATION_ERROR
Failed == \E k \in 1..Len(hist) : hist[k].status = U_MEMORY_ALLOCATION_ERROR

BuildingNoMem == Len(hist) < MaxNoMemOps /\ tables["t"].live /\ ~Failed

NoMemAdd ==
    /\ BuildingNoMem
    /\ \E el \in {SENTINEL, Word(0)}, mem \in MemOutcomes :
          uprv_cnttab_addContraction("t", el, 790, FreshCE, U_ZERO_ERROR, mem)

NoMemInsert ==
    /\ BuildingNoMem
    /\ \E el \in {SENTINEL, Word(0)}, mem \in MemOutcomes :
          uprv_cnttab_insertContraction("t", el, 768, FreshCE, U_ZERO_ERROR,
                                        mem)

NoMemClose ==
    /\ Len(hist) < MaxNoMemOps
    /\ uprv_cnttab_close("t")

NextNoMem == NoMemAdd \/ NoMemInsert \/ NoMemClose

SpecNoMem == Init /\ [][NextNoMem]_vars

\* the handles of table id whose element can be looked at
Entries(id) ==
    IF tables[id].elements = NullElements THEN {} ELSE Handles(id)

\* C14: every element has position <= size in every state, and an
\* element's size changes only by doubling, exactly in the addContraction
\* and insertContraction calls made on it while its position equals its
\* size.
C14_PositionWithinSize ==
    [][(Len(hist') = Len(hist) + 1)
        => /\ \A h \in Entries("t")' :
                 (Elem(tables["t"], heap, h).position
                    <= Elem(tables["t"], heap, h).size)'
           /\ \A h \in Entries("t") \cap Entries("t")' :
                 LET before == Elem(tables["t"], heap, h)
                     after == Elem(tables'["t"], heap', h)
                     full == /\ Last'.op \in {"add", "insert"}
                             /\ Last'.key = h
                             /\ before.position = before.size
                 IN /\ (after.size # before.size) <=> full
                    /\ full => after.size = 2 * before.size]_vars

\* C17: after a call that left U_MEMORY_ALLOCATION_ERROR, close releases
\* the elements and the handle array without going through a null pointer
\* and without freeing a released buffer.
C17_ClosableAfterFailure ==
    [][(Calls("close") /\ Failed) => ~Last'.ub]_vars

\* C18: an addContraction or insertContraction on a full element whose
\* growth fails sets U_MEMORY_ALLOCATION_ERROR and leaves the element as it
\* was (position, size, both buffers), writing nothing at or beyond the
\* old size.
C18_FailedGrowthKeepsEntry ==
    [][(/\ Calls("add") \/ Calls("insert")
        /\ ~Unallocated("t", Last'.element)
        /\ Elem(tables["t"], heap, Low24(Last'.element)).position =
             Elem(tables["t"], heap, Low24(Last'.element)).size
        /\ Len(Elem(tables'["t"], heap', Low24(Last'.element)).CEs) =
             Elem(tables["t"], heap, Low24(Last'.element)).size)
        => /\ Last'.status = U_MEMORY_ALLOCATION_ERROR
           /\ Elem(tables'["t"], heap', Low24(Last'.element)) =
                Elem(tables["t"], heap, Low24(Last'.element))
           /\ ~Last'.ub]_vars

----------------------------------------------------------------------------
(* SpecCloneFlat: a table is built and flattened, cloned, and the clone    *)
(* (or the source) is built further and flattened again                    *)

MaxCloneFlatOps == 5

CloneFlatAdd ==
    \E id \in TableIds, el \in {SENTINEL, Word(0)} :
        /\ Len(hist) < MaxCloneFlatOps /\ tables[id].live
        /\ uprv_cnttab_addContraction(id, el, 790, FreshCE, U_ZERO_ERROR, MemOK)

CloneFlatFlatten ==
    \E id \in TableIds :
        /\ Len(hist) < MaxCloneFlatOps /\ tables[id].live
        /\ uprv_cnttab_constructTable(id, IF id = "t" THEN 0 ELSE 5,
                                      U_ZERO_ERROR)

CloneFlatClone ==
    /\ Len(hist) < MaxCloneFlatOps
    /\ uprv_cnttab_clone("t", "r")

NextCloneFlat == CloneFlatAdd \/ CloneFlatFlatten \/ CloneFlatClone

SpecCloneFlat == Init /\ [][NextCloneFlat]_vars

\* the three flattened buffers of table id
FlatOf(id) == <<tables[id].codePoints, tables[id].CEs, tables[id].offsets>>

\* C21: the clone of a flattened table has flattened code points, CEs and
\* offsets equal to the source's, in blocks of its own; the clone of a
\* table that was not flattened has none; and no later call on the clone,
\* a second flatten included, changes the source's three buffers.
C21_FlatBuffersCloned ==
    [][(Len(hist') = Len(hist) + 1)
        => /\ Last'.op = "clone"
                => /\ \A k \in 1..3 :
                        /\ FlatOf("r")'[k].null = FlatOf("t")[k].null
                        /\ FlatOf("r")'[k].data = FlatOf("t")[k].data
                   /\ BlocksOf(tables'["r"]) \cap BlocksOf(tables["t"]) = {}
                   /\ FlatOf("t")' = FlatOf("t")
           /\ (Last'.op # "clone" /\ Last'.tbl = "r")
                => FlatOf("t")' = FlatOf("t")]_vars

----------------------------------------------------------------------------
(* The handle array, checked on the behaviours of SpecClone                *)

\* C22: in every table reached through open, element allocation and clone
\* (the clone as well as its source), the handles below `size` lead to
\* elements that differ from each other and every slot of the handle array
\* from `size` up to its capacity holds NULL.
C22_EmptySlotsMarked ==
    \A id \in TableIds :
        tables[id].live =>
            /\ Len(tables[id].elements) = tables[id].capacity
            /\ \A h1, h2 \in Handles(id) :
                  /\ At(tables[id].elements, h1) \in 1..Len(heap)
                  /\ At(tables[id].elements, h1) = At(tables[id].elements, h2)
                        => h1 = h2
            /\ \A h \in tables[id].size..(tables[id].capacity - 1) :
                  At(tables[id].elements, h) = NULL

----------------------------------------------------------------------------
(* What flatten leaves alone and what it copies, checked on the            *)
(* behaviours of SpecFlatten                                               *)

\* C23: flatten changes neither the number of allocated handles, nor the
\* handle array, nor any element (code points, CEs, position, size), so
\* that findCE gives for every handle and code point what it gave before.
C23_FlattenKeepsElements ==
    [][Calls("flatten")
        => /\ tables'["t"].size = tables["t"].size
           /\ tables'["t"].capacity = tables["t"].capacity
           /\ tables'["t"].elements = tables["t"].elements
           /\ heap' = heap
           /\ \A h \in 0..(tables["t"].capacity - 1), c \in {768, 769} :
                 FindCEOutcomes(tables'["t"], heap', Word(h), c) =
                     FindCEOutcomes(tables["t"], heap, Word(h), c)]_vars

\* after the flatten element 0 still holds the reference to handle 1 that
\* the flattened buffer holds relocated to offset 2
C23_Witness ==
    /\ Len(hist) = 4 /\ Last.op = "flatten" /\ Last.offset = 0
    /\ tables["t"].size = 2
    /\ tables["t"].offsets.data = <<0, 2>>
    /\ At(Elem(tables["t"], heap, 0).CEs, 0) = constructContractCE(1)
    /\ FlatCEAt("t", 0, 0, 0) = constructContractCE(2)
    /\ FindCEOutcomes(tables["t"], heap, Word(0), 769) =
          {[ce |-> constructContractCE(1), pos |-> 0, ub |-> FALSE]}

----------------------------------------------------------------------------
(* SpecTailored: elements are appended to, elements without pairs are made *)
(* by setContraction, and isTailored is asked about short strings          *)

MaxTailoredOps == 4

\* the strings given to isTailored, without their terminating 0
TailoredStrings == {<<>>, <<790>>, <<790, 790>>, <<FillCP>>}

TailoredAdd ==
    /\ Len(hist) < MaxTailoredOps
    /\ \E el \in {SENTINEL, Word(0)}, v \in {FreshCE, constructContractCE(1)} :
          uprv_cnttab_addContraction("t", el, 790, v, U_ZERO_ERROR, MemOK)

TailoredSet ==
    /\ Len(hist) < MaxTailoredOps
    /\ \E offset \in {0, INIT_EXP_TABLE_SIZE} :
          uprv_cnttab_setContraction("t", SENTINEL, offset, 790, FreshCE,
                                     U_ZERO_ERROR, MemOK)

TailoredIsTailored ==
    /\ Len(hist) < MaxTailoredOps
    /\ \E el \in {Word(0), Word(1)}, zt \in TailoredStrings :
          uprv_cnttab_isTailored("t", el, zt, U_ZERO_ERROR)

NextTailored ==
    \/ TailoredAdd
    \/ TailoredSet
    \/ TailoredIsTailored

SpecTailored == Init /\ [][NextTailored]_vars

\* the string of a recorded isTailored call
StringOf(call) ==
    CHOOSE zt \in TailoredStrings :
        /\ Len(zt) = call.offset
        /\ zt # <<>> => Head(zt) = call.cp

\* the CE the entry of handle h pairs with code point c in its slots
\* 0..position-1, UCOL_NOT_FOUND when there is no entry or no such pair
PairedCE(tb, hp, h, c) ==
    IF h \notin 0..(tb.size - 1)
    THEN UCOL_NOT_FOUND
    ELSE LET tbl == Elem(tb, hp, h)
             found == {j \in 0..(tbl.position - 1) : At(tbl.codePoints, j) = c}
         IN IF found = {}
            THEN UCOL_NOT_FOUND
            ELSE At(tbl.CEs, CHOOSE j \in found : \A k \in found : j <= k)

\* the walk of the string from handle h
RECURSIVE Walk(_, _, _, _)
Walk(tb, hp, h, zt) ==
    IF zt = <<>>
    THEN /\ h \in 0..(tb.size - 1)
         /\ Elem(tb, hp, h).position >= 1
         /\ At(Elem(tb, hp, h).CEs, 0) # UCOL_NOT_FOUND
    ELSE LET CE == PairedCE(tb, hp, h, Head(zt))
         IN IF CE = UCOL_NOT_FOUND
            THEN FALSE
            ELSE IF ~isContraction(CE)
            THEN TRUE
            ELSE Walk(tb, hp, Low24(CE), Tail(zt))

\* C24: isTailored returns what the walk of the string gives: a code point
\* the current entry does not pair is a miss (false), a direct CE is true,
\* a reference moves to its handle; at the end of the string the result is
\* true exactly when the last handle has an entry with a pair at slot 0
\* whose CE is not UCOL_NOT_FOUND.
C24_IsTailoredWalk ==
    [][Calls("isTailored")
        => /\ ~Last'.ub
           /\ Last'.iret =
                 (IF Walk(tables["t"], heap, Low24(Last'.element),
                          StringOf(Last'))
                  THEN 1 ELSE 0)]_vars

----------------------------------------------------------------------------
(* changeLastCE on the behaviours of SpecAlloc                             *)

\* C25: every changeLastCE call, on a handle, on the new-element value or
\* on an element without pairs, writes the CE of slot position-1 of the
\* element, a slot inside the element's buffer, and leaves the code point
\* of that slot, every other pair and the position as they were.
C25_ChangeLastInBuffer ==
    [][Calls("changeLast")
        => LET h == Last'.key
               after == Elem(tables'["t"], heap', h)
           IN /\ ~Last'.ub
              /\ Last'.offset = after.position - 1
              /\ Last'.offset \in 0..(after.size - 1)
              /\ At(after.CEs, Last'.offset) = Last'.value
              /\ h \in Handles("t")
                    => LET before == Elem(tables["t"], heap, h)
                       IN /\ after.position = before.position
                          /\ after.size = before.size
                          /\ after.codePoints = before.codePoints
                          /\ \A j \in 0..(before.size - 1) :
                                j # Last'.offset
                                    => At(after.CEs, j) = At(before.CEs, j)]_vars

----------------------------------------------------------------------------
(* SpecBuild: elements are built by appending and by inserting, in any     *)
(* mixture, until an allocation fails                                      *)

MaxBuildOps == 4

BuildAdd ==
    /\ Len(hist) < MaxBuildOps /\ ~Failed
    /\ \E el \in {SENTINEL, Word(0)}, c \in {768, 790},
          mem \in {MemOK, NoMemGrow} :
          uprv_cnttab_addContraction("t", el, c, FreshCE, U_ZERO_ERROR, mem)

BuildInsert ==
    /\ Len(hist) < MaxBuildOps /\ ~Failed
    /\ \E el \in {SENTINEL, Word(0)}, c \in {768, 769, 790},
          mem \in {MemOK, NoMemGrow} :
          uprv_cnttab_insertContraction("t", el, c, FreshCE, U_ZERO_ERROR, mem)

NextBuild == BuildAdd \/ BuildInsert

SpecBuild == Init /\ [][NextBuild]_vars

\* the pairs the element of handle h of "t" has before the step (none when
\* the handle is not allocated yet) and after it
PairsBefore(h) ==
    IF h \in Handles("t") THEN PairsOf(Elem(tables["t"], heap, h)) ELSE <<>>

PairsAfter(h) == PairsOf(Elem(tables'["t"], heap', h))

\* the elements other than that of handle h are as before the step
OthersKept(h) ==
    \A g \in Handles("t") \ {h} :
        Elem(tables'["t"], heap', g) = Elem(tables["t"], heap, g)

\* C26: an addContraction call that leaves the status at U_ZERO_ERROR, on
\* an element of n pairs, leaves it with n+1 pairs: the n pairs it had, in
\* their slots, and the given pair in slot n, whatever the code points; it
\* returns the contraction CE of the handle of the element written, which
\* is the handle given when that one is allocated.
C26_AddAppends ==
    [][(Calls("add") /\ Last'.status = U_ZERO_ERROR)
        => LET h == Low24(Last'.ret)
           IN /\ Last'.ret = constructContractCE(h)
              /\ Low24(Last'.element) \in Handles("t")
                    => h = Low24(Last'.element)
              /\ h \in 0..(tables'["t"].size - 1)
              /\ PairsAfter(h) =
                    Append(PairsBefore(h), <<Last'.cp, Last'.value>>)
              /\ OthersKept(h)]_vars

\* a pair with code point 768 appended, after a growth, behind a pair with
\* code point 790
C26_Witness ==
    /\ Len(hist) = 3 /\ Last.op = "add" /\ Last.status = U_ZERO_ERROR
    /\ Last.cp = 768 /\ Last.key = 0
    /\ Elem(tables["t"], heap, 0).position = 3
    /\ Elem(tables["t"], heap, 0).size = 2 * INIT_EXP_TABLE_SIZE
    /\ At(Elem(tables["t"], heap, 0).codePoints, 1) = 790
    /\ At(Elem(tables["t"], heap, 0).codePoints, 2) = 768
    /\ At(Elem(tables["t"], heap, 0).CEs, 2) = Last.value

\* the slot of the first of the pairs with a code point >= codePoint, the
\* slot behind the last pair when there is none (slots counted from 1)
FirstNotBelow(pairs, codePoint) ==
    LET notBelow == {j \in 1..Len(pairs) : pairs[j][1] >= codePoint}
    IN IF notBelow = {}
       THEN Len(pairs) + 1
       ELSE CHOOSE j \in notBelow : \A k \in notBelow : j <= k

\* C27: an insertContraction call that leaves the status at U_ZERO_ERROR
\* puts the pair in the first slot whose code point is >= the given one (at
\* the end when there is none), before a pair with an equal code point;
\* the pairs in front stay in their slots and the pairs from that slot on
\* move one slot up, in the same order; there is one pair more.
C27_InsertShifts ==
    [][(Calls("insert") /\ Last'.status = U_ZERO_ERROR)
        => LET h == Low24(Last'.ret)
               before == PairsBefore(h)
               k == FirstNotBelow(before, Last'.cp)
           IN /\ Low24(Last'.element) \in Handles("t")
                    => h = Low24(Last'.element)
              /\ PairsAfter(h) =
                    [j \in 1..(Len(before) + 1) |->
                        IF j < k THEN before[j]
                        ELSE IF j = k THEN <<Last'.cp, Last'.value>>
                        ELSE before[j - 1]]
              /\ OthersKept(h)]_vars

\* a pair with code point 768 inserted, after a growth, in slot 0 in front
\* of an older pair with code point 768 and of a pair with code point 790
C27_Witness ==
    /\ Len(hist) = 3 /\ Last.op = "insert" /\ Last.status = U_ZERO_ERROR
    /\ Last.cp = 768 /\ Last.key = 0
    /\ PairsOf(Elem(tables["t"], heap, 0)) =
          <<<<768, Last.value>>, <<768, hist[1].value>>, <<790, hist[2].value>>>>

----------------------------------------------------------------------------
(* changeContraction on the behaviours of Spec                             *)

\* the code points of the pairs do not decrease from slot to slot
Ascending(pairs) ==
    \A j \in 1..(Len(pairs) - 1) : pairs[j][1] <= pairs[j + 1][1]

\* C28: a changeContraction call on an allocated handle whose element has
\* ascending code points, for a code point one of its pairs has, returns
\* the handle and stores the new CE in the (first) pair with that code
\* point: findCE then returns the new CE for it, and the code points, the
\* CEs of the other pairs, the position and size of the element, the other
\* elements, the number of handles and the mapping are as before.
C28_ChangeReplacesOneCE ==
    [][(/\ Calls("change")
        /\ Low24(Last'.element) \in Handles("t")
        /\ Ascending(PairsBefore(Low24(Last'.element)))
        /\ \E j \in 1..Len(PairsBefore(Low24(Last'.element))) :
              PairsBefore(Low24(Last'.element))[j][1] = Last'.cp)
        => LET h == Low24(Last'.element)
               before == Elem(tables["t"], heap, h)
               after == Elem(tables'["t"], heap', h)
               k == FirstNotBelow(PairsOf(before), Last'.cp)
           IN /\ Last'.ret = Word(h) /\ ~Last'.ub
              /\ tables' = tables /\ mapping' = mapping
              /\ after = [before EXCEPT !.CEs[k] = Last'.value]
              /\ OthersKept(h)
              /\ FindCEOutcomes(tables'["t"], heap', Word(h), Last'.cp) =
                    {[ce |-> Last'.value, pos |-> k - 1, ub |-> FALSE]}]_vars

\* the CE of the pair with code point 768 changed in an element that has a
\* pair with code point 790 behind it, which keeps its CE
C28_Witness ==
    /\ Len(hist) = 3 /\ Last.op = "change" /\ Last.cp = 768
    /\ Last.ret = Word(0) /\ hist[1].op = "insert" /\ hist[2].op = "insert"
    /\ PairsOf(Elem(tables["t"], heap, 0)) =
          <<<<768, Last.value>>, <<790, hist[2].value>>>>
    /\ hist[1].cp = 768 /\ hist[1].value # Last.value

----------------------------------------------------------------------------
(* The layout of the flattened buffers, on the behaviours of SpecFlatten   *)

\* C29: after flatten(mainOffset) the two flattened buffers have one slot
\* for every pair of every element and no other; the slots of element h
\* start at offsets[h] - mainOffset, right behind those of element h-1;
\* the CE of every pair that is not a contraction CE stands unchanged in
\* its slot (slot 0 too), and so does every code point but that of slot 0.
C29_FlatLayoutLossless ==
    (Len(hist) > 0 /\ Last.op = "flatten" /\ ~tables["t"].offsets.null)
      => LET tb == tables["t"]
             total == SumTo(Positions("t"), tb.size)
             start(h) == At(tb.offsets.data, h) - Last.offset
         IN /\ Len(tb.CEs.data) = total
            /\ Len(tb.codePoints.data) = total
            /\ Len(tb.offsets.data) = tb.size
            /\ start(0) = 0
            /\ \A h \in 1..(tb.size - 1) :
                  start(h) = start(h - 1) + Elem(tb, heap, h - 1).position
            /\ start(tb.size - 1) + Elem(tb, heap, tb.size - 1).position = total
            /\ \A h \in Handles("t") :
                  \A j \in 0..(Elem(tb, heap, h).position - 1) :
                     /\ ~isContraction(At(Elem(tb, heap, h).CEs, j))
                           => At(tb.CEs.data, start(h) + j) =
                                 At(Elem(tb, heap, h).CEs, j)
                     /\ j >= 1
                           => At(tb.codePoints.data, start(h) + j) =
                                 At(Elem(tb, heap, h).codePoints, j)

\* two elements flattened at main offset 5: the second pair of element 0
\* and the pair of element 1 stand in slots 1 and 2 with their direct CEs
C29_Witness ==
    /\ Len(hist) = 4 /\ Last.op = "flatten" /\ Last.offset = 5
    /\ tables["t"].size = 2
    /\ tables["t"].offsets.data = <<5, 7>>
    /\ Elem(tables["t"], heap, 0).position = 2
    /\ tables["t"].CEs.data = <<constructContractCE(7), D2000, D2000>>

----------------------------------------------------------------------------
(* SpecStatus: one caller with one UErrorCode, passed to every call and    *)
(* never reset: a call gets the status the call before it left.  The       *)
(* status becomes a failure by a setContraction beyond the element's size. *)

MaxStatusOps == 4

\* the caller's UErrorCode
CallerStatus == IF hist = <<>> THEN U_ZERO_ERROR ELSE Last.status

StatusOpen ==
    /\ Len(hist) < MaxStatusOps
    /\ cnttab_open("r", CallerStatus)

StatusAdd ==
    /\ Len(hist) < MaxStatusOps
    /\ \E el \in {SENTINEL, Word(0)} :
          uprv_cnttab_addContraction("t", el, 790, FreshCE, CallerStatus, MemOK)

StatusInsert ==
    /\ Len(hist) < MaxStatusOps
    /\ uprv_cnttab_insertContraction("t", Word(0), 768, FreshCE, CallerStatus,
                                     MemOK)

StatusSet ==
    /\ Len(hist) < MaxStatusOps
    /\ \E offset \in {0, INIT_EXP_TABLE_SIZE} :
          uprv_cnttab_setContraction("t", Word(0), offset, 769, FreshCE,
                                     CallerStatus, MemOK)

StatusChange ==
    /\ Len(hist) < MaxStatusOps
    /\ uprv_cnttab_changeContraction("t", Word(0), 790, FreshCE, CallerStatus)

StatusChangeLast ==
    /\ Len(hist) < MaxStatusOps
    /\ uprv_cnttab_changeLastCE("t", Word(0), FreshCE, CallerStatus, MemOK)

StatusFlatten ==
    /\ Len(hist) < MaxStatusOps
    /\ uprv_cnttab_constructTable("t", 0, CallerStatus)

StatusFindCE ==
    /\ Len(hist) < MaxStatusOps
    /\ uprv_cnttab_findCE("t", Word(0), 790, CallerStatus)

StatusFindCP ==
    /\ Len(hist) < MaxStatusOps
    /\ uprv_cnttab_findCP("t", Word(0), 790, CallerStatus)

StatusGetCE ==
    /\ Len(hist) < MaxStatusOps
    /\ uprv_cnttab_getCE("t", Word(0), 0, CallerStatus)

StatusIsTailored ==
    /\ Len(hist) < MaxStatusOps
    /\ uprv_cnttab_isTailored("t", Word(0), <<790>>, CallerStatus)

NextStatus ==
    \/ StatusOpen
    \/ StatusAdd
    \/ StatusInsert
    \/ StatusSet
    \/ StatusChange
    \/ StatusChangeLast
    \/ StatusFlatten
    \/ StatusFindCE
    \/ StatusFindCP
    \/ StatusGetCE
    \/ StatusIsTailored

SpecStatus == Init /\ [][NextStatus]_vars

\* the operations that take a status
StatusOps ==
    {"open", "flatten", "add", "insert", "set", "change", "changeLast",
     "findCE", "findCP", "getCE", "isTailored"}

\* the caller's status is one of the error codes
CallerFailed ==
    /\ hist # <<>>
    /\ Last.status \in {U_MEMORY_ALLOCATION_ERROR, U_INDEX_OUTOFBOUNDS_ERROR}

\* C30: a call of open, flatten, addContraction, insertContraction,
\* setContraction, changeContraction, changeLastCE, findCE, findCP, getCE
\* or isTailored made with a status that is already a failure changes
\* neither a table nor an element nor the mapping, creates no table and no
\* element, reads nothing undefined and leaves the status as it was.
C30_FailingStatusNoOp ==
    [][(CallerFailed /\ Len(hist') = Len(hist) + 1 /\ Last'.op \in StatusOps)
        => /\ tables' = tables
           /\ heap' = heap
           /\ mapping' = mapping
           /\ Last'.status = Last.status
           /\ ~Last'.ub]_vars

\* after a pair was added and a setContraction failed, a flatten and an
\* open were called with the failed status: nothing is flattened and there
\* is no second table
C30_Witness ==
    /\ Len(hist) = 4
    /\ hist[1].op = "add" /\ hist[1].status = U_ZERO_ERROR
    /\ hist[2].op = "set" /\ hist[2].status = U_INDEX_OUTOFBOUNDS_ERROR
    /\ hist[3].op = "flatten" /\ hist[3].status = U_INDEX_OUTOFBOUNDS_ERROR
    /\ hist[4].op = "open" /\ hist[4].status = U_INDEX_OUTOFBOUNDS_ERROR
    /\ tables["t"].offsets.null /\ tables["t"].size = 1
    /\ ~tables["r"].live

----------------------------------------------------------------------------
(* The slots the lookups read, on the behaviours of SpecLookup             *)

\* C31: every slot of an element's code points that the scan of findCE or
\* findCP reads is a slot of the buffer (0 <= index < size), for a full
\* element and a code point above all those stored too, and the call reads
\* nothing that is not defined.
C31_ScanInsideBuffer ==
    [][((Calls("findCE") \/ Calls("findCP"))
            /\ ~Unallocated("t", Last'.element))
        => LET tbl == Elem(tables["t"], heap, Low24(Last'.element))
           IN /\ ScanReads(tbl, Last'.cp, 0) \subseteq 0..(tbl.size - 1)
              /\ ~Last'.ub]_vars

----------------------------------------------------------------------------
(* SpecReflatten: elements are appended and written by offset, references  *)
(* are stored in the mapping, and the table is flattened any number of     *)
(* times                                                                   *)

MaxReflattenOps == 5

ReflattenAdd ==
    /\ Len(hist) < MaxReflattenOps
    /\ \E el \in {SENTINEL, Word(0)}, v \in {FreshCE, constructContractCE(1)} :
          uprv_cnttab_addContraction("t", el, 790, v, U_ZERO_ERROR, MemOK)

ReflattenSet ==
    /\ Len(hist) < MaxReflattenOps
    /\ \E offset \in {0, 1} :
          uprv_cnttab_setContraction("t", Word(0), offset, 769, FreshCE,
                                     U_ZERO_ERROR, MemOK)

ReflattenStore ==
    /\ Len(hist) < MaxReflattenOps
    /\ Len(hist) > 0 /\ Last.op = "add"
    /\ SetMappingTo(65, Last.ret)

ReflattenFlatten ==
    /\ Len(hist) < MaxReflattenOps
    /\ \E mainOffset \in {0, 5} :
          uprv_cnttab_constructTable("t", mainOffset, U_ZERO_ERROR)

NextReflatten ==
    \/ ReflattenAdd
    \/ ReflattenSet
    \/ ReflattenStore
    \/ ReflattenFlatten

SpecReflatten == Init /\ [][NextReflatten]_vars

\* every contraction CE among the pairs of the elements of "t" refers to an
\* allocated handle
ReferencesAllocated ==
    \A h \in Handles("t") :
        \A j \in 0..(Elem(tables["t"], heap, h).position - 1) :
            isContraction(At(Elem(tables["t"], heap, h).CEs, j))
                => getContractOffset(At(Elem(tables["t"], heap, h).CEs, j))
                        \in Handles("t")

\* C32: a flatten that follows a flatten with the same main offset, with
\* no call in between, on a table whose references are to allocated
\* handles, returns what the first returned and leaves the offsets, the
\* flattened code points and the flattened CEs with the words they had.
C32_ReflattenSame ==
    [][(/\ Calls("flatten")
        /\ hist # <<>> /\ Last.op = "flatten" /\ Last.offset = Last'.offset
        /\ ReferencesAllocated)
        => /\ Last'.iret = Last.iret
           /\ tables'["t"].offsets.data = tables["t"].offsets.data
           /\ tables'["t"].codePoints.data = tables["t"].codePoints.data
           /\ tables'["t"].CEs.data = tables["t"].CEs.data
           /\ tables'["t"].offsets.null = tables["t"].offsets.null]_vars

\* two elements, the first with a reference to the second, flattened twice
\* at main offset 5
C32_Witness ==
    /\ Len(hist) = 5
    /\ hist[4].op = "flatten" /\ hist[4].offset = 5
    /\ hist[5].op = "flatten" /\ hist[5].offset = 5
    /\ hist[5].iret = 3 /\ hist[4].iret = 3
    /\ tables["t"].offsets.data = <<5, 7>>
    /\ At(tables["t"].CEs.data, 0) = constructContractCE(7)
    /\ At(Elem(tables["t"], heap, 0).CEs, 0) = constructContractCE(1)

\* no CE was stored in the mapping by the caller since the last flatten
NoStoreSinceFlatten ==
    \E k \in 1..Len(hist) :
        /\ hist[k].op = "flatten"
        /\ \A j \in (k + 1)..Len(hist) : hist[j].op # "setmap"

\* C33: a flatten of a table that is flattened already, with nothing stored
\* in the mapping since, leaves every mapping[c] at the value the earlier
\* flatten gave it (the reference to offsets[h] for a slot that held the
\* reference to h): no relocated offset is looked up in the offsets again.
C33_MappingRelocatedOnce ==
    [][(/\ Calls("flatten")
        /\ ~tables["t"].offsets.null
        /\ NoStoreSinceFlatten
        /\ ReferencesAllocated)
        => mapping' = mapping]_vars

----------------------------------------------------------------------------
(* SpecHandle: the caller passes on, as the element of later calls, the    *)
(* contraction CEs that earlier calls returned                             *)

MaxHandleOps == 4

\* the contraction CEs returned so far by the calls that return one
Returned ==
    {hist[k].ret : k \in {j \in 1..Len(hist) :
        /\ hist[j].op \in {"add", "insert", "set", "changeLast"}
        /\ isContraction(hist[j].ret)}}

HandleAdd ==
    /\ Len(hist) < MaxHandleOps
    /\ \E el \in {SENTINEL} \cup Returned :
          uprv_cnttab_addContraction("t", el, 790, FreshCE, U_ZERO_ERROR, MemOK)

HandleInsert ==
    /\ Len(hist) < MaxHandleOps
    /\ \E el \in {SENTINEL} \cup Returned :
          uprv_cnttab_insertContraction("t", el, 768, FreshCE, U_ZERO_ERROR,
                                        MemOK)

HandleSet ==
    /\ Len(hist) < MaxHandleOps
    /\ \E el \in {SENTINEL} \cup Returned :
          uprv_cnttab_setContraction("t", el, 0, 769, FreshCE, U_ZERO_ERROR,
                                     MemOK)

HandleChangeLast ==
    /\ Len(hist) < MaxHandleOps
    /\ \E el \in Returned :
          uprv_cnttab_changeLastCE("t", el, FreshCE, U_ZERO_ERROR, MemOK)

HandleChange ==
    /\ Len(hist) < MaxHandleOps
    /\ \E el \in Returned :
          uprv_cnttab_changeContraction("t", el, 790, FreshCE, U_ZERO_ERROR)

HandleFindCE ==
    /\ Len(hist) < MaxHandleOps
    /\ \E el \in Returned \cup {Word(0)} :
          uprv_cnttab_findCE("t", el, 790, U_ZERO_ERROR)

NextHandle ==
    \/ HandleAdd
    \/ HandleInsert
    \/ HandleSet
    \/ HandleChangeLast
    \/ HandleChange
    \/ HandleFindCE

SpecHandle == Init /\ [][NextHandle]_vars

\* C34: a call of add, insert, set, change or findCE whose element is a
\* contraction CE that an earlier add, insert, set or changeLastCE returned
\* works on the element of the handle in its low 24 bits, as the call with
\* the bare handle does: no element is created, no other element changes,
\* the building calls return the same contraction CE again, and findCE
\* returns what it returns for the bare handle.
C34_ReturnedRefIsHandle ==
    [][(/\ Len(hist') = Len(hist) + 1
        /\ Last'.op \in {"add", "insert", "set", "change", "findCE"}
        /\ Last'.element \in Returned)
        => LET h == Low24(Last'.element)
           IN /\ h \in Handles("t")
              /\ tables'["t"].size = tables["t"].size
              /\ tables'["t"].elements = tables["t"].elements
              /\ Len(heap') = Len(heap)
              /\ OthersKept(h)
              /\ Last'.op \in {"add", "insert", "set"}
                    => Last'.key = h /\ Last'.ret = Last'.element
              /\ Last'.op = "change"
                    => Last'.ret \in {Word(h), UCOL_NOT_FOUND}
              /\ Last'.op = "findCE"
                    => [ce |-> Last'.ret, pos |-> Last'.iret, ub |-> Last'.ub]
                          \in FindCEOutcomes(tables["t"], heap, Word(h),
                                             Last'.cp)]_vars

\* the reference the first add returned was passed to a second add and to
\* a findCE: one element, with two pairs, the first of which is found
C34_Witness ==
    /\ Len(hist) = 3
    /\ hist[1].op = "add" /\ hist[1].element = SENTINEL
    /\ hist[2].op = "add" /\ hist[2].element = hist[1].ret
    /\ hist[3].op = "findCE" /\ hist[3].element = hist[1].ret
    /\ isContraction(hist[1].ret) /\ hist[1].ret # Word(0)
    /\ tables["t"].size = 1
    /\ Elem(tables["t"], heap, 0).position = 2
    /\ hist[3].ret = hist[1].value

----------------------------------------------------------------------------
(* The length of isTailored's walk, on the behaviours of SpecTailored      *)

\* C35: whatever the table, references that lead back to their own element
\* included, every walk of isTailored ends, after at most one lookup for
\* each code unit of the string and the final one.
C35_IsTailoredBounded ==
    \A el \in {Word(0), Word(1)}, zt \in TailoredStrings :
        \A r \in IsTailored(tables["t"], heap, el, zt) :
            r.lookups <= Len(zt) + 1

\* element 1 pairs 790 with the reference to element 1; isTailored was
\* called on it with the string 790 790 and its walk takes three lookups
C35_Witness ==
    /\ Len(hist) > 0 /\ Last.op = "isTailored"
    /\ Last.element = Word(1) /\ Last.offset = 2 /\ Last.cp = 790
    /\ tables["t"].size = 2
    /\ At(Elem(tables["t"], heap, 1).CEs, 0) = constructContractCE(1)
    /\ At(Elem(tables["t"], heap, 1).codePoints, 0) = 790
    /\ \E r \in IsTailored(tables["t"], heap, Word(1), <<790, 790>>) :
          r.lookups = 3

----------------------------------------------------------------------------
(* setContraction beyond the size, on the behaviours of SpecSet            *)

\* C36: a setContraction call that sets U_INDEX_OUTOFBOUNDS_ERROR, with a
\* handle, with an unallocated handle or with the new-element value,
\* changes nothing: the table, its number of elements and every element
\* are as before the call.
C36_FailedSetChangesNothing ==
    [][(Calls("set") /\ Last'.status = U_INDEX_OUTOFBOUNDS_ERROR)
        => /\ tables' = tables
           /\ heap' = heap
           /\ mapping' = mapping]_vars

----------------------------------------------------------------------------
(* The clone as its caller sees it, on the behaviours of SpecClone         *)

\* C37: right after clone, a call on the clone gives what the same call on
\* the source gives, for an allocated handle, an unallocated one and the
\* new-element value: both tables have the same handles, the elements of a
\* handle have the same pairs, position and size, a handle that the
\* building operations can resolve in one they can resolve in the other,
\* and findCE and getCE have the same outcomes.
C37_CloneEquivalent ==
    [][Calls("clone")
        => /\ tables'["r"].size = tables'["t"].size
           /\ tables'["r"].capacity = tables'["t"].capacity
           /\ \A h \in 0..(tables'["t"].size - 1) :
                 Elem(tables'["r"], heap', h) = Elem(tables'["t"], heap', h)
           /\ \A el \in {SENTINEL, Word(0), Word(1)} :
                 /\ ValidElement(tables'["r"], el) = ValidElement(tables'["t"], el)
                 /\ \A c \in {768, 790} :
                       FindCEOutcomes(tables'["r"], heap', el, c) =
                           FindCEOutcomes(tables'["t"], heap', el, c)
                 /\ GetCEOutcomes(tables'["r"], heap', el, 0) =
                       GetCEOutcomes(tables'["t"], heap', el, 0)]_vars

----------------------------------------------------------------------------
(* setContraction and the flatten that follows, on the behaviours of       *)
(* SpecReflatten                                                           *)

\* the setContraction calls of the history whose slot is at or beyond the
\* position of the element they wrote
SetsBeyondPosition ==
    {k \in 1..Len(hist) :
        /\ hist[k].op = "set" /\ hist[k].status = U_ZERO_ERROR
        /\ hist[k].offset >= Elem(tables["t"], heap, hist[k].key).position}

\* C38: setContraction leaves the position of the element it writes as it
\* was (0 for an element it creates); a flatten counts, for every element,
\* the pairs below its position only: its total and the length of its
\* buffers are the sum of the positions, and the CE that a setContraction
\* wrote at or beyond the position is in no slot of the flattened CEs.
C38_SetKeepsPosition ==
    [][/\ Calls("set")
          => Elem(tables'["t"], heap', Last'.key).position =
                IF Last'.key \in Handles("t")
                THEN Elem(tables["t"], heap, Last'.key).position
                ELSE 0
       /\ (Calls("flatten") /\ tables["t"].size > 0)
          => LET total == SumTo(Positions("t"), tables["t"].size)
             IN /\ Last'.iret = total
                /\ Len(tables'["t"].CEs.data) = total
                /\ Len(tables'["t"].codePoints.data) = total
                /\ \A k \in SetsBeyondPosition :
                      \A j \in 1..total :
                         tables'["t"].CEs.data[j] # hist[k].value]_vars

\* a pair appended, a second one written by setContraction at slot 1, the
\* table flattened: the total is 1 and the flattened CEs are the first CE
C38_Witness ==
    /\ Len(hist) = 3
    /\ hist[1].op = "add" /\ hist[2].op = "set" /\ hist[2].offset = 1
    /\ hist[2].status = U_ZERO_ERROR /\ hist[2].key = 0
    /\ hist[3].op = "flatten" /\ hist[3].iret = 1
    /\ Elem(tables["t"], heap, 0).position = 1
    /\ At(Elem(tables["t"], heap, 0).CEs, 1) = hist[2].value
    /\ tables["t"].CEs.data = <<hist[1].value>>
    /\ hist[1].value # hist[2].value

====
